---- MODULE Spec2Model ----
(***************************************************************************)
(* Connect-Four server: the in-memory session layer.                       *)
(*   models.Board            - the board engine (models.go)                *)
(*   bot.Bot                 - the adversary search (config.go, package    *)
(*                             bot)                                        *)
(*   services.GameService    - the game registry (game_service.go)         *)
(*   services.MatchmakingService - the waiting queue                       *)
(*   services.ReconnectionService - the disconnect tracker                 *)
(*   handlers.WSHandler      - the session gateway                         *)
(***************************************************************************)
EXTENDS Integers, Sequences, FiniteSets, TLC

(***************************************************************************)
(* Program constants.                                                      *)
(***************************************************************************)
NumRows == 6
NumCols == 7

\* JoinMatchmakingPayload.Username: binding:"required,min=3,max=50"
MinNameLen == 3

MaxNameLen == 50
maxDepth == 5
botNum == 2
humanNum == 1

Rows == 0..(NumRows - 1)
Cols == 0..(NumCols - 1)

ColorRed == "red"
ColorYellow == "yellow"
GameStatusActive == "active"
GameStatusCompleted == "completed"
GameStatusForfeited == "forfeited"
GameStatusDraw == "draw"

Max(a, b) == IF a >= b THEN a ELSE b
Min(a, b) == IF a <= b THEN a ELSE b

(***************************************************************************)
(* models.Board                                                            *)
(***************************************************************************)
NewBoard == [r \in Rows |-> [c \in Cols |-> 0]]

IsValidMove(b, column) ==
    IF column < 0 \/ column > 6 THEN FALSE ELSE b[0][column] = 0

\* the row DropDisc writes to: the highest-indexed empty row of the column,
\* -1 when the column has none
RECURSIVE DropScan(_, _, _)
DropScan(b, column, row) ==
    IF row < 0 THEN -1
    ELSE IF b[row][column] = 0 THEN row
    ELSE DropScan(b, column, row - 1)

\* a drop that takes the first empty cell from the top of the column
DropRowFromTop(b, column) == IF b[0][column] = 0 THEN 0 ELSE -1

DropRow(b, column) == DropScan(b, column, 5)

\* the board DropDisc leaves
DropDisc(b, column, playerNum) ==
    LET row == DropRow(b, column) IN
    IF row = -1 THEN b
    ELSE [b EXCEPT ![row][column] = playerNum]

RECURSIVE CountDir(_, _, _, _, _, _)
CountDir(b, r, c, dRow, dCol, player) ==
    IF r >= 0 /\ r < 6 /\ c >= 0 /\ c < 7 /\ b[r][c] = player
    THEN 1 + CountDir(b, r + dRow, c + dCol, dRow, dCol, player)
    ELSE 0

\* a count that walks away from the cell on one side only
checkDirectionOneWay(b, row, col, dRow, dCol, player) ==
    1 + CountDir(b, row + dRow, col + dCol, dRow, dCol, player) >= 4

checkDirection(b, row, col, dRow, dCol, player) ==
    1 + CountDir(b, row + dRow, col + dCol, dRow, dCol, player)
      + CountDir(b, row - dRow, col - dCol, 0 - dRow, 0 - dCol, player) >= 4

directions == << <<0, 1>>, <<1, 0>>, <<1, 1>>, <<-1, 1>> >>

CheckWin(b, row, col) ==
    LET player == b[row][col] IN
    IF player = 0 THEN FALSE
    ELSE \E i \in 1..4 :
            checkDirection(b, row, col, directions[i][1], directions[i][2], player)

IsFull(b) == \A col \in Cols : b[0][col] # 0

(***************************************************************************)
(* bot.Bot.  Scores are the code's float64 values; the only fraction is    *)
(* the 0.1 centre bias, so GetBestMove compares ten times the score.       *)
(***************************************************************************)
Inf == 1000000

RECURSIVE findWinningScan(_, _, _)
findWinningScan(board, playerNum, col) ==
    IF col > 6 THEN -1
    ELSE IF ~IsValidMove(board, col) THEN findWinningScan(board, playerNum, col + 1)
    ELSE IF CheckWin(DropDisc(board, col, playerNum), DropRow(board, col), col)
         THEN col
         ELSE findWinningScan(board, playerNum, col + 1)

\* a probe that keeps looking after the first column that completes four
findWinningLast(board, playerNum) ==
    LET wins == {col \in 0..6 : /\ IsValidMove(board, col)
                                /\ CheckWin(DropDisc(board, col, playerNum),
                                            DropRow(board, col), col)}
    IN  IF wins = {} THEN -1 ELSE CHOOSE col \in wins : \A other \in wins : other <= col

findWinningMove(board, playerNum) == findWinningScan(board, playerNum, 0)

evaluateWindow(w1, w2, w3, w4) ==
    LET botCount == (IF w1 = botNum THEN 1 ELSE 0) + (IF w2 = botNum THEN 1 ELSE 0)
                  + (IF w3 = botNum THEN 1 ELSE 0) + (IF w4 = botNum THEN 1 ELSE 0)
        humanCount == (IF w1 = humanNum THEN 1 ELSE 0) + (IF w2 = humanNum THEN 1 ELSE 0)
                    + (IF w3 = humanNum THEN 1 ELSE 0) + (IF w4 = humanNum THEN 1 ELSE 0)
        emptyCount == 4 - botCount - humanCount
    IN  (IF botCount = 4 THEN 100
         ELSE IF botCount = 3 /\ emptyCount = 1 THEN 10
         ELSE IF botCount = 2 /\ emptyCount = 2 THEN 5
         ELSE 0)
      + (IF humanCount = 3 /\ emptyCount = 1 THEN -80 ELSE 0)

RECURSIVE SumWindows(_, _, _, _, _, _, _)
\* sum of evaluateWindow over rows rLo..rHi and columns c..cHi, with step (dr, dc)
SumWindows(board, r, rHi, cLo, cHi, dr, dc) ==
    IF r > rHi THEN 0
    ELSE LET RECURSIVE RowSum(_)
             RowSum(c) ==
                IF c > cHi THEN 0
                ELSE evaluateWindow(board[r][c], board[r + dr][c + dc],
                                    board[r + 2 * dr][c + 2 * dc],
                                    board[r + 3 * dr][c + 3 * dc]) + RowSum(c + 1)
         IN RowSum(cLo) + SumWindows(board, r + 1, rHi, cLo, cHi, dr, dc)

evaluateBoard(board) ==
      SumWindows(board, 0, 5, 0, 3, 0, 1)
    + SumWindows(board, 0, 2, 0, 6, 1, 0)
    + SumWindows(board, 3, 5, 0, 3, -1, 1)
    + SumWindows(board, 0, 2, 0, 3, 1, 1)

RECURSIVE minimax(_, _, _, _, _)
RECURSIVE maxLoop(_, _, _, _, _, _)
RECURSIVE minLoop(_, _, _, _, _, _)

minimax(board, depth, alpha, beta, isMaximizing) ==
    IF depth = 0 \/ IsFull(board) THEN evaluateBoard(board)
    ELSE IF isMaximizing THEN maxLoop(board, depth, alpha, beta, 0, 0 - Inf)
    ELSE minLoop(board, depth, alpha, beta, 0, Inf)

maxLoop(board, depth, alpha, beta, col, maxEval) ==
    IF col > 6 THEN maxEval
    ELSE IF ~IsValidMove(board, col)
         THEN maxLoop(board, depth, alpha, beta, col + 1, maxEval)
    ELSE LET boardCopy == DropDisc(board, col, botNum)
             row == DropRow(board, col)
         IN  IF CheckWin(boardCopy, row, col) THEN 1000 + depth
             ELSE LET eval == minimax(boardCopy, depth - 1, alpha, beta, FALSE)
                      newMax == Max(maxEval, eval)
                      newAlpha == Max(alpha, eval)
                  IN  IF beta <= newAlpha THEN newMax
                      ELSE maxLoop(board, depth, newAlpha, beta, col + 1, newMax)

minLoop(board, depth, alpha, beta, col, minEval) ==
    IF col > 6 THEN minEval
    ELSE IF ~IsValidMove(board, col)
         THEN minLoop(board, depth, alpha, beta, col + 1, minEval)
    ELSE LET boardCopy == DropDisc(board, col, humanNum)
             row == DropRow(board, col)
         IN  IF CheckWin(boardCopy, row, col) THEN (0 - 1000) - depth
             ELSE LET eval == minimax(boardCopy, depth - 1, alpha, beta, TRUE)
                      newMin == Min(minEval, eval)
                      newBeta == Min(beta, eval)
                  IN  IF newBeta <= alpha THEN newMin
                      ELSE minLoop(board, depth, alpha, newBeta, col + 1, newMin)

\* a search that answers the centre column without looking at the board
searchLoopCentre(board, col, bestScore, bestCol) == 3

\* the search loop of GetBestMove: <<bestScore, bestCol>> after columns col..6
RECURSIVE searchLoop(_, _, _, _)
searchLoop(board, col, bestScore, bestCol) ==
    IF col > 6 THEN bestCol
    ELSE IF ~IsValidMove(board, col) THEN searchLoop(board, col + 1, bestScore, bestCol)
    ELSE LET boardCopy == DropDisc(board, col, botNum)
             score == 10 * minimax(boardCopy, maxDepth - 1, 0 - Inf, Inf, FALSE)
                      + (IF col = 3 THEN 1 ELSE 0)
         IN  IF score > bestScore THEN searchLoop(board, col + 1, score, col)
             ELSE searchLoop(board, col + 1, bestScore, bestCol)

RECURSIVE firstValid(_, _)
firstValid(board, col) ==
    IF col > 6 THEN -1
    ELSE IF IsValidMove(board, col) THEN col
    ELSE firstValid(board, col + 1)

\* a search that probes the human's columns before its own
GetBestMoveBlockFirst(board) ==
    LET block == findWinningMove(board, humanNum) IN
    IF block # -1 THEN block
    ELSE LET win == findWinningMove(board, botNum) IN
         IF win # -1 THEN win
         ELSE LET bestCol == searchLoop(board, 0, 0 - (10 * Inf) - 1, -1) IN
              IF bestCol = -1
              THEN (IF IsValidMove(board, 3) THEN 3 ELSE firstValid(board, 0))
              ELSE bestCol

GetBestMove(board) ==
    LET win == findWinningMove(board, botNum) IN
    IF win # -1 THEN win
    ELSE LET block == findWinningMove(board, humanNum) IN
         IF block # -1 THEN block
         ELSE LET bestCol == searchLoop(board, 0, 0 - (10 * Inf) - 1, -1) IN
              IF bestCol = -1
              THEN (IF IsValidMove(board, 3) THEN 3 ELSE firstValid(board, 0))
              ELSE bestCol


(***************************************************************************)
(* The environment: the openings the players follow.  A client sends the   *)
(* columns of the opening its game was given, then up to MaxFreeMoves       *)
(* columns of its own choice.  In a game against the adversary only the     *)
(* red (odd) entries are used; yellow's column comes from the search.       *)
(***************************************************************************)
OpeningFree == << >>
\* red stacks column 0, yellow column 1: red's fourth disc wins on move 7
OpeningQuick == <<0, 1, 0, 1, 0, 1, 0>>
\* forty moves without a four; the cells left are the tops of columns 4 and 6
OpeningFill == <<1, 3, 6, 0, 2, 2, 2, 1, 5, 5, 1, 0, 1, 5, 3, 2, 1, 3, 5, 4,
                 5, 3, 4, 1, 2, 0, 3, 4, 5, 3, 0, 0, 2, 0, 6, 4, 6, 6, 6, 4>>
\* red's columns against the adversary, which answers 3 each time and wins
OpeningSolo == <<0, 3, 2, 3, 4, 3, 6>>

\* red stacks column 0 and yellow column 6, two discs each
OpeningTowers == <<0, 6, 0, 6>>
\* red holds the diagonal (5,0), (4,1), (3,2); its fourth cell (2,3) has two
\* empty cells under it
OpeningStairs == <<0, 1, 1, 2, 3, 2, 2>>

\* the first thirty moves of OpeningFill: columns 1, 3 and 5 are full, and
\* twelve cells are left in columns 0, 2, 4 and 6
OpeningCrowd == SubSeq(OpeningFill, 1, 30)

Openings == [free |-> OpeningFree, quick |-> OpeningQuick, fill |-> OpeningFill,
             solo |-> OpeningSolo, towers |-> OpeningTowers, stairs |-> OpeningStairs,
             crowd |-> OpeningCrowd]

(***************************************************************************)
(* GetBestMove is a function of the board alone.  Its values on the boards *)
(* the adversary meets along OpeningSolo are computed once, here; on any    *)
(* other board BestMove runs the search.                                    *)
(***************************************************************************)
\* the boards the adversary is asked about from move n of OpeningSolo on, each
\* with the column GetBestMove returns for it
RECURSIVE SoloPlay(_, _)
SoloPlay(board, n) ==
    IF n > Len(OpeningSolo) \/ IsFull(board) THEN {}
    ELSE UNION {UNION {{<<asked, reply>>} \cup
                       (IF reply = -1 THEN {}
                        ELSE SoloPlay(DropDisc(asked, reply, botNum), n + 2)) :
                       reply \in {GetBestMove(asked)}} :
                asked \in {DropDisc(board, OpeningSolo[n], humanNum)}}

KnownReplies == SoloPlay(NewBoard, 1)

BestMove(board) ==
    IF \E e \in KnownReplies : e[1] = board
    THEN (CHOOSE e \in KnownReplies : e[1] = board)[2]
    ELSE GetBestMove(board)

(***************************************************************************)
(* Bounds of the model.                                                    *)
(***************************************************************************)
\* sockets the clients open during a run
MaxSockets == 3
\* games the store issues ids for
MaxGames == 1
\* moves the players make on their own after the opening they follow
MaxFreeMoves == 2

Sockets == 1..MaxSockets
NoSocket == 0
NoGame == 0
NoName == ""

\* the store's player ids: one per username (players.id, username UNIQUE)
PlayerIdOf(name) == IF name = "A" THEN 1 ELSE IF name = "B" THEN 2 ELSE 3
\* CreatePlayer("Bot_<timestamp>"): a row of its own for the k-th game
BotIdOf(k) == 10 + k

(***************************************************************************)
(* services.GameService: each operation as a function of the registry.    *)
(* A result is [err, games, move, over]; err = "" is the nil error, and     *)
(* move / over are NoPayload where the code returns nil.                    *)
(* Timestamps: CompletedAt counts the finalisations of the game (0 is nil). *)
(***************************************************************************)
NoPayload == [none |-> TRUE]
NoWinner == ""

PlayerInfo(id, username, color, isBot) ==
    [ID |-> id, Username |-> username, Color |-> color, IsBot |-> isBot]

CreateGame(games, player1, player2) ==
    LET dbGameID == Len(games) + 1
        gameState == [GameID |-> dbGameID,
                      Player1 |-> player1,
                      Player2 |-> player2,
                      Board |-> NewBoard,
                      CurrentTurn |-> ColorRed,
                      Status |-> GameStatusActive,
                      Winner |-> NoWinner,
                      MoveCount |-> 0,
                      CompletedAt |-> 0]
    IN  Append(games, gameState)

Exists(games, gameID) == gameID \in DOMAIN games

Failure(games, msg) ==
    [err |-> msg, games |-> games, move |-> NoPayload, over |-> NoPayload]

\* a registry that never finds a game finished
NotActiveNever(game) == FALSE

\* game.Status != models.GameStatusActive
NotActive(game) == game.Status # GameStatusActive

\* a registry that takes Player1 for the player in turn, whatever the colour
CurrentPlayerFirst(game) == game.Player1

\* currentPlayer := game.Player1; if CurrentTurn == yellow, game.Player2
CurrentPlayer(game) ==
    IF game.CurrentTurn = ColorYellow THEN game.Player2 ELSE game.Player1

\* a registry that drops the disc and forgets game.MoveCount++
DroppedUncounted(game, column, playerNum) ==
    [game EXCEPT !.Board = DropDisc(game.Board, column, playerNum)]

\* row := game.Board.DropDisc(column, playerNum); game.MoveCount++
Dropped(game, column, playerNum) ==
    [game EXCEPT !.Board = DropDisc(game.Board, column, playerNum),
                 !.MoveCount = game.MoveCount + 1]

\* a registry that tests IsFull before CheckWin
OutcomeFullFirst(board, row, column) ==
    IF IsFull(board) THEN "draw"
    ELSE IF CheckWin(board, row, column) THEN "win"
    ELSE "none"

\* the order of the two tests after a drop: CheckWin first, then IsFull
Outcome(board, row, column) ==
    IF CheckWin(board, row, column) THEN "win"
    ELSE IF IsFull(board) THEN "draw"
    ELSE "none"

\* a registry that hands the turn to red after every move
ToggledStuck(turn) == ColorRed

\* the toggle of CurrentTurn after a move that does not end the game
Toggled(turn) == IF turn = ColorRed THEN ColorYellow ELSE ColorRed

MovePayload(game, column, row, color, nextTurn) ==
    [Column |-> column, Row |-> row, Color |-> color, NextTurn |-> nextTurn,
     Board |-> game.Board, MoveNumber |-> game.MoveCount]

handleGameEnd(games, gameID, winnerID, reason, column, row, color) ==
    LET game == games[gameID]
        status == IF reason = "draw" THEN GameStatusDraw ELSE GameStatusCompleted
        winner == IF reason = "draw" \/ winnerID = 0 THEN game.Winner
                  ELSE IF winnerID = game.Player1.ID THEN game.Player1.Username
                  ELSE game.Player2.Username
        ended == [game EXCEPT !.CompletedAt = game.CompletedAt + 1,
                              !.Status = status,
                              !.Winner = winner]
    IN  [err |-> "",
         games |-> [games EXCEPT ![gameID] = ended],
         move |-> MovePayload(ended, column, row, color, ""),
         over |-> [Winner |-> ended.Winner, Reason |-> reason, Board |-> ended.Board]]

\* a registry whose validity test looks at the column's range only
MakeMoveCheckRangeOnly(games, gameID, playerID, column) ==
    IF ~Exists(games, gameID) THEN "game not found"
    ELSE LET game == games[gameID] IN
    IF NotActive(game) THEN "game is not active"
    ELSE IF CurrentPlayer(game).ID # playerID THEN "not your turn"
    ELSE IF column < 0 \/ column > 6 THEN "invalid move: column is full"
    ELSE ""

\* MakeMove up to the drop: the lookup and the three refusals; "" passes
MakeMoveCheck(games, gameID, playerID, column) ==
    IF ~Exists(games, gameID) THEN "game not found"
    ELSE LET game == games[gameID] IN
    IF NotActive(game) THEN "game is not active"
    ELSE IF CurrentPlayer(game).ID # playerID THEN "not your turn"
    ELSE IF ~IsValidMove(game.Board, column) THEN "invalid move: column is full"
    ELSE ""

\* MakeMove from the drop on, for the currentPlayer found before it
MakeMoveApply(games, gameID, currentPlayer, column) ==
    LET game == games[gameID]
        playerNum == IF game.CurrentTurn = ColorYellow THEN 2 ELSE 1
        row == DropRow(game.Board, column)
    IN
    IF row = -1 THEN Failure(games, "failed to drop disc")
    ELSE LET moved == Dropped(game, column, playerNum)
             after == [games EXCEPT ![gameID] = moved]
             outcome == Outcome(moved.Board, row, column)
         IN
    IF outcome = "win"
    THEN handleGameEnd(after, gameID, currentPlayer.ID, "win", column, row,
                       currentPlayer.Color)
    ELSE IF outcome = "draw"
    THEN handleGameEnd(after, gameID, 0, "draw", column, row, currentPlayer.Color)
    ELSE LET turned == [moved EXCEPT !.CurrentTurn = Toggled(moved.CurrentTurn)]
         IN  [err |-> "",
              games |-> [games EXCEPT ![gameID] = turned],
              move |-> MovePayload(turned, column, row, currentPlayer.Color,
                                   turned.CurrentTurn),
              over |-> NoPayload]

\* MakeBotMove up to the search
\* a registry that lets the adversary move whatever the turn
MakeBotMoveCheckAnyTurn(games, gameID) ==
    IF ~Exists(games, gameID) THEN "game not found"
    ELSE LET game == games[gameID] IN
    IF NotActive(game) THEN "game is not active"
    ELSE IF ~game.Player2.IsBot THEN "player 2 is not a bot"
    ELSE ""

MakeBotMoveCheck(games, gameID) ==
    IF ~Exists(games, gameID) THEN "game not found"
    ELSE LET game == games[gameID] IN
    IF NotActive(game) THEN "game is not active"
    ELSE IF ~game.Player2.IsBot THEN "player 2 is not a bot"
    ELSE IF game.CurrentTurn # game.Player2.Color THEN "not bot's turn"
    ELSE ""

\* MakeBotMove from the search on.  GetBestMove returns -1 only for a board
\* with no legal column; DropDisc would then index outside the board and the
\* call ends in a panic, the registry untouched.
MakeBotMoveApply(games, gameID) ==
    LET game == games[gameID]
        column == BestMove(game.Board)
    IN
    IF column = -1 THEN Failure(games, "panic: index out of range")
    ELSE LET row == DropRow(game.Board, column) IN
    IF row = -1 THEN Failure(games, "failed to drop disc")
    ELSE LET moved == Dropped(game, column, 2)
             after == [games EXCEPT ![gameID] = moved]
             outcome == Outcome(moved.Board, row, column)
         IN
    IF outcome = "win"
    THEN handleGameEnd(after, gameID, game.Player2.ID, "win", column, row,
                       game.Player2.Color)
    ELSE IF outcome = "draw"
    THEN handleGameEnd(after, gameID, 0, "draw", column, row, game.Player2.Color)
    ELSE LET turned == [moved EXCEPT !.CurrentTurn = ColorRed]
         IN  [err |-> "",
              games |-> [games EXCEPT ![gameID] = turned],
              move |-> MovePayload(turned, column, row, game.Player2.Color,
                                   turned.CurrentTurn),
              over |-> NoPayload]

ForfeitGame(games, gameID, playerID) ==
    IF ~Exists(games, gameID) THEN Failure(games, "game not found")
    ELSE LET game == games[gameID]
             winnerID == IF game.Player1.ID = playerID
                         THEN game.Player2.ID ELSE game.Player1.ID
             ended == [game EXCEPT !.CompletedAt = game.CompletedAt + 1,
                                   !.Status = GameStatusForfeited,
                                   !.Winner = IF winnerID = game.Player1.ID
                                              THEN game.Player1.Username
                                              ELSE game.Player2.Username]
         IN  [err |-> "",
              games |-> [games EXCEPT ![gameID] = ended],
              move |-> NoPayload,
              over |-> NoPayload]

(***************************************************************************)
(* The settings a run takes place in: who connects, through how many       *)
(* sockets, whether anyone waits long enough for the matchmaking timeout,   *)
(* whether the store and the event sink may fail while a game is played,    *)
(* and the openings played.                                                 *)
(*   solo   - one player waits the timeout out and meets the adversary,     *)
(*            and may come back on a second socket                          *)
(*   duel   - two players, one socket each, paired within the timeout       *)
(*   rejoin - two players who may come back on further sockets              *)
(*   retry  - one player on one socket, who may send join_matchmaking again  *)
(*   guest  - a player and a second client that joins under the            *)
(*            adversary's username and listens: it sends no make_move       *)
(***************************************************************************)
Names == {"A", "B"}

\* the keys of connections and playerGames: any username a client sends,
\* the adversary's among them
Clients == Names \cup {"Bot"}

Settings ==
    [solo |-> [names |-> {"A"}, sockets |-> {1, 2}, timeout |-> TRUE,
               flaky |-> TRUE, retry |-> FALSE, mute |-> {}, openings |-> {"solo"}],
     duel |-> [names |-> Names, sockets |-> 1..Cardinality(Names), timeout |-> FALSE,
               flaky |-> TRUE, retry |-> FALSE, mute |-> {},
               openings |-> {"free", "quick", "fill"}],
     rejoin |-> [names |-> Names, sockets |-> 1..MaxSockets, timeout |-> FALSE,
                 flaky |-> FALSE, retry |-> FALSE, mute |-> {}, openings |-> {"quick"}],
     retry |-> [names |-> {"A"}, sockets |-> {1}, timeout |-> TRUE,
                flaky |-> FALSE, retry |-> TRUE, mute |-> {}, openings |-> {"solo"}],
     guest |-> [names |-> {"A", "Bot"}, sockets |-> {1, 2}, timeout |-> TRUE,
                flaky |-> FALSE, retry |-> FALSE, mute |-> {"Bot"},
                openings |-> {"solo"}]]

VARIABLES
    activeGames,          \* GameService.activeGames: game id -> GameState
    gamesMutex,           \* GameService.gamesMutex: the socket whose call holds it
    waitingQueue,         \* MatchmakingService.waitingQueue
    botTimers,            \* the startBotTimer goroutines asleep, by their player
    matchTasks,           \* the createMatch / createBotMatch goroutines not yet run
    connections,          \* WSHandler.connections: username -> socket
    playerGames,          \* WSHandler.playerGames: username -> game id
    disconnectedPlayers,  \* ReconnectionService.disconnectedPlayers
    forfeitTimers,        \* the startForfeitTimer goroutines asleep: the username
                          \* each holds, with the DisconnectedAt of the record it
                          \* was armed for and whether HandleReconnection has
                          \* removed that record since
    sock,                 \* per socket: the reader's position and its username
    joinClock,            \* time.Now() of the last WaitingPlayer.JoinedAt
    discClock,            \* time.Now() of the last DisconnectedAt
    opening,              \* per game: the opening its players follow
    moves,                \* per game: the accepted moves, in order
    setting,              \* the setting of the run
    timedOut,             \* per username: the game its forfeit timer forfeited, for
                          \* as long as no later disconnect of the name is on record
    arrivals,             \* the entries JoinQueue accepted, in order, since the last
                          \* leave or matchmaking timeout
    last,                 \* the last call into the services and its result
    sent,                 \* the messages the last step wrote to sockets, in order
    mutexes,              \* per mutex: the goroutine holding it for writing, those
                          \* holding it for reading, those blocked in Lock()
    threads               \* per goroutine: the code path it runs and its place in it

vars == <<activeGames, gamesMutex, waitingQueue, botTimers, matchTasks, connections,
          playerGames, disconnectedPlayers, forfeitTimers, sock, joinClock,
          discClock, opening, moves, setting, timedOut, arrivals, last, sent,
          mutexes, threads>>

NoCall == [op |-> "none"]
NoRecord == [none |-> TRUE]

\* goroutines whose lock operations are followed one by one
MaxThreads == 3
Threads == 1..MaxThreads
NoThread == 0

\* WSHandler.connMutex, MatchmakingService.queueMutex, GameService.gamesMutex,
\* ReconnectionService.disconnectedMutex
Mutexes == {"connMutex", "queueMutex", "gamesMutex", "disconnectedMutex"}

Unlocked == [m \in Mutexes |-> [writer |-> NoThread, readers |-> {}, waiting |-> {}]]
Idle == [t \in Threads |-> [path |-> "", pc |-> 0]]
Env == Settings[setting]

Init ==
    /\ activeGames = << >>
    /\ gamesMutex = NoSocket
    /\ waitingQueue = << >>
    /\ botTimers = {}
    /\ matchTasks = {}
    /\ connections = [n \in Clients |-> NoSocket]
    /\ playerGames = [n \in Clients |-> NoGame]
    /\ disconnectedPlayers = [n \in Clients |-> NoRecord]
    /\ forfeitTimers = {}
    /\ sock = [s \in Sockets |-> [state |-> "none", username |-> NoName, call |-> NoCall]]
    /\ joinClock = 0
    /\ discClock = 0
    /\ opening = << >>
    /\ moves = << >>
    /\ setting \in DOMAIN Settings
    /\ timedOut = [n \in Clients |-> NoGame]
    /\ arrivals = << >>
    /\ last = NoCall
    /\ sent = << >>
    /\ mutexes = Unlocked
    /\ threads = Idle

(***************************************************************************)
(* services.MatchmakingService                                             *)
(***************************************************************************)
\* a JoinQueue that skips the scan
InQueueNever(queue, username) == FALSE

InQueue(queue, username) == \E i \in DOMAIN queue : queue[i].Username = username

\* the index of the first entry of the name that is not TimerDone, 0 if none
RECURSIVE FirstEntry(_, _, _)
FirstEntry(queue, username, i) ==
    IF i > Len(queue) THEN 0
    ELSE IF queue[i].Username = username /\ ~queue[i].TimerDone THEN i
    ELSE FirstEntry(queue, username, i + 1)

\* a removal that removes nothing
RemoveAtKept(queue, k) == queue

\* append(queue[:i], queue[i+1:]...) with the code's 0-based i = k - 1
RemoveAt(queue, k) ==
    [j \in 1..(Len(queue) - 1) |-> IF j < k THEN queue[j] ELSE queue[j + 1]]

WaitingPlayer(username, socketID, joinedAt) ==
    [Username |-> username, PlayerID |-> PlayerIdOf(username), SocketID |-> socketID,
     JoinedAt |-> joinedAt, TimerDone |-> FALSE]

\* a JoinQueue that pairs nobody: every accepted join waits at the tail
JoinQueueAllWait(queue, username, socketID, joinedAt) ==
    IF InQueue(queue, username)
    THEN [err |-> "player already in queue", queue |-> queue, match |-> << >>,
          timer |-> << >>]
    ELSE LET waitingPlayer == WaitingPlayer(username, socketID, joinedAt) IN
         [err |-> "", queue |-> Append(queue, waitingPlayer),
          match |-> << >>, timer |-> <<waitingPlayer>>]

\* a JoinQueue that pairs the arrival with the head and leaves the head waiting
JoinQueueHeadStays(queue, username, socketID, joinedAt) ==
    IF InQueue(queue, username)
    THEN [err |-> "player already in queue", queue |-> queue, match |-> << >>,
          timer |-> << >>]
    ELSE LET waitingPlayer == WaitingPlayer(username, socketID, joinedAt) IN
         IF Len(queue) > 0
         THEN [err |-> "", queue |-> queue,
               match |-> <<Head(queue), waitingPlayer>>, timer |-> << >>]
         ELSE [err |-> "", queue |-> Append(queue, waitingPlayer),
               match |-> << >>, timer |-> <<waitingPlayer>>]

\* a JoinQueue that pairs only once two players wait (len(queue) > 1)
JoinQueuePairsAtTwo(queue, username, socketID, joinedAt) ==
    IF InQueue(queue, username)
    THEN [err |-> "player already in queue", queue |-> queue, match |-> << >>,
          timer |-> << >>]
    ELSE LET waitingPlayer == WaitingPlayer(username, socketID, joinedAt) IN
         IF Len(queue) > 1
         THEN [err |-> "", queue |-> Tail(queue),
               match |-> <<Head(queue), waitingPlayer>>, timer |-> << >>]
         ELSE [err |-> "", queue |-> Append(queue, waitingPlayer),
               match |-> << >>, timer |-> <<waitingPlayer>>]

\* JoinQueue: [err, queue, match, timer]; match is the pair handed to createMatch,
\* timer the player handed to startBotTimer
JoinQueue(queue, username, socketID, joinedAt) ==
    IF InQueue(queue, username)
    THEN [err |-> "player already in queue", queue |-> queue, match |-> << >>,
          timer |-> << >>]
    ELSE LET waitingPlayer == WaitingPlayer(username, socketID, joinedAt) IN
         IF Len(queue) > 0
         THEN [err |-> "", queue |-> Tail(queue),
               match |-> <<Head(queue), waitingPlayer>>, timer |-> << >>]
         ELSE [err |-> "", queue |-> Append(queue, waitingPlayer),
               match |-> << >>, timer |-> <<waitingPlayer>>]

\* the index of the first entry of the name, 0 if none
RECURSIVE IndexOfName(_, _, _)
IndexOfName(queue, username, i) ==
    IF i > Len(queue) THEN 0
    ELSE IF queue[i].Username = username THEN i
    ELSE IndexOfName(queue, username, i + 1)

LeaveQueue(queue, username) ==
    LET k == IndexOfName(queue, username, 1) IN
    IF k = 0 THEN queue ELSE RemoveAt(queue, k)

(***************************************************************************)
(* handlers.WSHandler: the socket readers                                   *)
(***************************************************************************)
\* sendMessage(conn, WSMessage{Type, Payload}): one write to a socket
Msg(to, type, payload) == [to |-> to, type |-> type, payload |-> payload]

\* sendError(conn, message)
ErrorMsg(to, message) == Msg(to, "error", [Message |-> message])

\* h.connections[username]; nil for a name the map does not hold
ConnOf(conns, username) ==
    IF username \in DOMAIN conns THEN conns[username] ELSE NoSocket

\* the write guarded by `if conn != nil'
IfConn(to, type, payload) ==
    IF to = NoSocket THEN << >> ELSE <<Msg(to, type, payload)>>

\* upgrader.Upgrade: a new socket, its reader's username empty
Connect(s) ==
    /\ sock[s].state = "none"
    /\ \A t \in Sockets : t < s => sock[t].state # "none"
    /\ sock' = [sock EXCEPT ![s].state = "open"]
    /\ last' = NoCall
    /\ sent' = << >>
    /\ UNCHANGED <<mutexes, threads, setting, gamesMutex, activeGames, waitingQueue, botTimers,
                   matchTasks, connections,
                   playerGames, disconnectedPlayers, forfeitTimers, joinClock,
                   discClock, opening, moves, timedOut, arrivals>>

\* handleJoinMatchmaking, with JoinQueue
JoinMatchmaking(s, name) ==
    /\ sock[s].state = "open"
    /\ IF name = NoName
       THEN /\ sock' = [sock EXCEPT ![s].username = NoName]
            /\ sent' = <<ErrorMsg(s, "Invalid username")>>
            /\ UNCHANGED <<connections, waitingQueue, botTimers, matchTasks, joinClock,
                           arrivals>>
       ELSE \E r \in {JoinQueue(waitingQueue, name, s, joinClock + 1)} :
            /\ connections' = [connections EXCEPT ![name] = s]
            /\ waitingQueue' = r.queue
            /\ joinClock' = IF r.err = "" THEN joinClock + 1 ELSE joinClock
            /\ matchTasks' = IF r.match # << >>
                             THEN matchTasks \cup {[kind |-> "match", player1 |-> r.match[1],
                                                    player2 |-> r.match[2]]}
                             ELSE matchTasks
            /\ botTimers' = IF r.timer # << >> THEN botTimers \cup {r.timer[1]}
                            ELSE botTimers
            /\ arrivals' = IF r.err = ""
                           THEN Append(arrivals, WaitingPlayer(name, s, joinClock + 1))
                           ELSE arrivals
            /\ sock' = [sock EXCEPT ![s].username = name]
            /\ sent' = IF r.err # "" THEN <<ErrorMsg(s, r.err)>>
                       ELSE <<Msg(s, "matchmaking-status", [status |-> "searching"])>>
    /\ last' = [op |-> IF name = NoName THEN "handleJoinMatchmaking" ELSE "JoinQueue",
                socket |-> s, username |-> name,
                queue |-> waitingQueue, timers |-> botTimers, tasks |-> matchTasks]
    /\ UNCHANGED <<mutexes, threads, setting, gamesMutex, activeGames, playerGames, disconnectedPlayers,
                   forfeitTimers, discClock, opening, moves, timedOut>>

\* the columns a client may send next for the game: those of its opening, then
\* any column while the free moves last
NextCols(gameID) ==
    LET n == activeGames[gameID].MoveCount + 1
        script == Openings[opening[gameID]]
    IN  IF n <= Len(script) THEN {script[n]}
        ELSE IF n <= Len(script) + MaxFreeMoves THEN Cols
        ELSE {}

\* the columns the registry must refuse: outside the board, or full
RefusedCols(gameID) ==
    {-1, 7} \cup {c \in Cols : activeGames[gameID].Board[0][c] # 0}
            \cup (IF activeGames[gameID].Status # GameStatusActive THEN {3} ELSE {})

AttemptCols(gameID) ==
    IF gameID \in DOMAIN activeGames
    THEN (IF activeGames[gameID].Status = GameStatusActive THEN NextCols(gameID) ELSE {})
         \cup RefusedCols(gameID)
    ELSE {3}

\* a registry whose calls do not wait for the mutex
MutexIgnored(mutex) == TRUE

\* gs.gamesMutex.Lock() / RLock() returns only while no call holds the mutex
MutexFree(mutex) == mutex = NoSocket

\* the outcomes of the store's calls (SaveGameMove, CompleteGame) and of the
\* event sink's calls (Publish...) made during one call into the registry
IoOutcomes == [store : BOOLEAN, sink : BOOLEAN]

IoOk == [store |-> TRUE, sink |-> TRUE]

\* the outcomes the setting allows
Io == IF Env.flaky THEN IoOutcomes ELSE {IoOk}

\* a registry that returns the store's or the sink's failure to its caller
BestEffortFailing(io, games, r) ==
    IF r.err = "" /\ ~(io.store /\ io.sink)
    THEN Failure(games, "failed to record the move")
    ELSE r

\* `_ = gs.db.SaveGameMove(...)', `_ = gs.db.CompleteGame(...)' and the logged
\* Publish errors: the outcome is dropped and the call returns what it
\* computed
BestEffort(io, games, r) == r

Call(op, gameID, playerID, column, r, before, io) ==
    [op |-> op, gameID |-> gameID, playerID |-> playerID, column |-> column,
     err |-> r.err, move |-> r.move, over |-> r.over, before |-> before, io |-> io]

Accepted(r, seen) ==
    [MoveNumber |-> r.move.MoveNumber, Color |-> r.move.Color,
     Column |-> r.move.Column, Row |-> r.move.Row, Board |-> r.move.Board,
     seen |-> seen]

\* results whose Board is a view of the registry's board (a slice of slices)
ReturnedShared(history, r, seen) ==
    [i \in 1..(Len(history) + 1) |->
        IF i <= Len(history) THEN [history[i] EXCEPT !.Board = r.move.Board]
        ELSE Accepted(r, seen)]

\* the results MakeMove and MakeBotMove have returned for a game: Board is
\* [6][7]int, so `Board: game.Board' copies the forty-two cells into the payload
Returned(history, r, seen) == Append(history, Accepted(r, seen))

\* handleMakeMove: GetGame, the participant lookup, and MakeMove up to the drop
\* (lock taken, the call refused or found in order)
HandleMakeMove(s, gameID, column) ==
    /\ sock[s].state = "open"
    /\ column \in AttemptCols(gameID)
    /\ MutexFree(gamesMutex)
    /\ LET username == sock[s].username IN
       IF ~Exists(activeGames, gameID)
       THEN /\ last' = [op |-> "GetGame", gameID |-> gameID, err |-> "game not found"]
            /\ sent' = <<ErrorMsg(s, "Game not found")>>
            /\ UNCHANGED <<sock, gamesMutex>>
       ELSE LET game == activeGames[gameID] IN
            IF game.Player1.Username # username /\ game.Player2.Username # username
            THEN /\ last' = NoCall
                 /\ sent' = <<ErrorMsg(s, "You are not in this game")>>
                 /\ UNCHANGED <<sock, gamesMutex>>
            ELSE LET playerID == IF game.Player1.Username = username
                                 THEN game.Player1.ID ELSE game.Player2.ID
                 IN  \E err \in {MakeMoveCheck(activeGames, gameID, playerID, column)} :
                     IF err # ""
                     THEN /\ last' = Call("MakeMove", gameID, playerID, column,
                                          Failure(activeGames, err), game, IoOk)
                          /\ sent' = <<ErrorMsg(s, err)>>
                          /\ UNCHANGED <<sock, gamesMutex>>
                     ELSE /\ sock' = [sock EXCEPT ![s].state = "moving",
                                         ![s].call = [gameID |-> gameID,
                                                      playerID |-> playerID,
                                                      column |-> column,
                                                      currentPlayer |-> CurrentPlayer(game),
                                                      before |-> game]]
                          /\ gamesMutex' = s
                          /\ last' = NoCall
                          /\ sent' = << >>
    /\ UNCHANGED <<mutexes, threads, setting, activeGames, moves, waitingQueue, botTimers, matchTasks,
                   connections, playerGames, disconnectedPlayers, forfeitTimers,
                   joinClock, discClock, opening, timedOut, arrivals>>

\* what handleMakeMove writes once MakeMove has returned r
MoveMessages(s, username, game, r) ==
    IF r.err # "" THEN <<ErrorMsg(s, r.err)>>
    ELSE LET opponentUsername == IF username = game.Player2.Username
                                 THEN game.Player1.Username
                                 ELSE game.Player2.Username
             opponentConn == ConnOf(connections, opponentUsername)
         IN  <<Msg(s, "move-accepted", r.move)>>
             \o IfConn(opponentConn, "opponent-moved", r.move)
             \o (IF r.over = NoPayload THEN << >>
                 ELSE <<Msg(s, "game-over", r.over)>>
                      \o (IF game.Player2.IsBot THEN << >>
                          ELSE IfConn(opponentConn, "game-over", r.over)))

\* MakeMove from the drop to the deferred Unlock, then the handler up to the
\* adversary's pause
FinishMakeMove(s) ==
    /\ sock[s].state = "moving"
    /\ LET c == sock[s].call IN
       \E io \in Io :
       \E r \in {BestEffort(io, activeGames,
                             MakeMoveApply(activeGames, c.gameID, c.currentPlayer,
                                           c.column))} :
           /\ activeGames' = r.games
           /\ last' = Call("MakeMove", c.gameID, c.playerID, c.column, r, c.before, io)
           /\ moves' = IF r.err = ""
                       THEN [moves EXCEPT ![c.gameID] =
                                Returned(@, r, c.before.MoveCount)]
                       ELSE moves
           /\ sock' = IF /\ r.err = ""
                         /\ r.over = NoPayload
                         /\ c.before.Player2.IsBot
                         /\ r.move.NextTurn = ColorYellow
                      THEN [sock EXCEPT ![s].state = "botwait",
                                        ![s].call = [gameID |-> c.gameID]]
                      ELSE [sock EXCEPT ![s].state = "open", ![s].call = NoCall]
           /\ sent' = MoveMessages(s, sock[s].username, c.before, r)
    /\ gamesMutex' = NoSocket
    /\ UNCHANGED <<mutexes, threads, setting, waitingQueue, botTimers, matchTasks, connections,
                   playerGames, disconnectedPlayers, forfeitTimers, joinClock,
                   discClock, opening, timedOut, arrivals>>

\* handleMakeMove after time.Sleep(500ms): MakeBotMove up to the search
HandleBotMove(s) ==
    /\ sock[s].state = "botwait"
    /\ MutexFree(gamesMutex)
    /\ LET gameID == sock[s].call.gameID IN
       \E err \in {MakeBotMoveCheck(activeGames, gameID)} :
           IF err # ""
           THEN /\ last' = Call("MakeBotMove", gameID, 0, -1,
                                Failure(activeGames, err), activeGames[gameID], IoOk)
                /\ sock' = [sock EXCEPT ![s].state = "open", ![s].call = NoCall]
                /\ sent' = << >>
                /\ UNCHANGED gamesMutex
           ELSE /\ sock' = [sock EXCEPT ![s].state = "botmoving",
                               ![s].call = [gameID |-> gameID,
                                            before |-> activeGames[gameID]]]
                /\ gamesMutex' = s
                /\ last' = NoCall
                /\ sent' = << >>
    /\ UNCHANGED <<mutexes, threads, setting, activeGames, moves, waitingQueue, botTimers, matchTasks,
                   connections, playerGames, disconnectedPlayers, forfeitTimers,
                   joinClock, discClock, opening, timedOut, arrivals>>

\* MakeBotMove from the search to the deferred Unlock
FinishBotMove(s) ==
    /\ sock[s].state = "botmoving"
    /\ LET c == sock[s].call IN
       \E io \in Io :
       \E r \in {BestEffort(io, activeGames, MakeBotMoveApply(activeGames, c.gameID))} :
           /\ activeGames' = r.games
           /\ last' = Call("MakeBotMove", c.gameID, 0, -1, r, c.before, io)
           /\ moves' = IF r.err = ""
                       THEN [moves EXCEPT ![c.gameID] =
                                Returned(@, r, c.before.MoveCount)]
                       ELSE moves
           /\ sent' = IF r.err # "" THEN << >>
                      ELSE <<Msg(s, "opponent-moved", r.move)>>
                           \o (IF r.over = NoPayload THEN << >>
                               ELSE <<Msg(s, "game-over", r.over)>>)
    /\ sock' = [sock EXCEPT ![s].state = "open", ![s].call = NoCall]
    /\ gamesMutex' = NoSocket
    /\ UNCHANGED <<mutexes, threads, setting, waitingQueue, botTimers, matchTasks, connections,
                   playerGames, disconnectedPlayers, forfeitTimers, joinClock,
                   discClock, opening, timedOut, arrivals>>

HasRecord(username) ==
    username \in Clients /\ disconnectedPlayers[username] # NoRecord

\* a registry that never forgets: the record stays
ForgetRecordKept(players, username) == players

\* delete(rs.disconnectedPlayers, username)
ForgetRecord(players, username) == [players EXCEPT ![username] = NoRecord]

\* HandleReconnection, GetGame having found the game: the record looked up by
\* the reader's username and, if there is one, removed
HandleReconnection(players, username) ==
    IF username \in DOMAIN players /\ players[username] # NoRecord
    THEN [found |-> TRUE, player |-> players[username],
          players |-> ForgetRecord(players, username)]
    ELSE [found |-> FALSE, player |-> NoRecord, players |-> players]

\* what handleReconnectGame writes after a restore; conns is h.connections
\* with the name already bound to the socket
RestoreMessages(s, username, gameState, conns) ==
    LET mine == gameState.Player1.Username = username
        yourColor == IF mine THEN gameState.Player1.Color ELSE gameState.Player2.Color
        opponentName == IF mine THEN gameState.Player2.Username
                        ELSE gameState.Player1.Username
    IN  <<Msg(s, "game-restored",
              [game_id |-> gameState.GameID, board |-> gameState.Board,
               current_turn |-> gameState.CurrentTurn,
               move_count |-> gameState.MoveCount,
               your_color |-> yourColor, opponent |-> opponentName])>>
        \o IfConn(ConnOf(conns, opponentName), "opponent-reconnected",
                  [message |-> username])

\* handleReconnectGame, with HandleReconnection, for the username the reader
\* holds (empty until the socket has sent join-matchmaking); client is the
\* name of the user at the other end of the socket, which the message does
\* not carry, and record (in `last') the record the registry held for client
HandleReconnectGame(s, client) ==
    /\ sock[s].state = "open"
    /\ sock[s].username \in {NoName, client}
    /\ LET username == sock[s].username IN
       \E r \in {HandleReconnection(disconnectedPlayers, username)} :
       IF ~r.found
       THEN /\ sent' = <<ErrorMsg(s, "Failed to reconnect to game")>>
            /\ last' = [op |-> "HandleReconnection", socket |-> s,
                        username |-> username, client |-> client,
                        record |-> disconnectedPlayers[client], found |-> FALSE]
            /\ UNCHANGED <<disconnectedPlayers, connections, playerGames, forfeitTimers>>
       ELSE /\ MutexFree(gamesMutex)
            /\ disconnectedPlayers' = r.players
            /\ forfeitTimers' =
                  {IF t.username = username /\ t.armedAt = r.player.DisconnectedAt
                   THEN [t EXCEPT !.reconnected = TRUE] ELSE t : t \in forfeitTimers}
            /\ connections' = [connections EXCEPT ![username] = s]
            /\ playerGames' = [playerGames EXCEPT ![username] = r.player.GameID]
            /\ sent' = RestoreMessages(s, username, activeGames[r.player.GameID],
                                       connections')
            /\ last' = [op |-> "HandleReconnection", socket |-> s,
                        username |-> username, client |-> client,
                        record |-> disconnectedPlayers[client], found |-> TRUE,
                        before |-> activeGames[r.player.GameID]]
    /\ UNCHANGED <<mutexes, threads, setting, gamesMutex, activeGames, waitingQueue, botTimers, matchTasks,
                   sock, joinClock, discClock, opening, moves, timedOut, arrivals>>

\* the other participant's name, as the handlers compute it
OpponentOf(game, username) ==
    IF username = game.Player2.Username THEN game.Player1.Username
    ELSE game.Player2.Username

\* ReadMessage fails: handleDisconnection for the reader's username, with
\* TrackDisconnection or LeaveQueue; the reader ends
Drop(s) ==
    /\ sock[s].state = "open"
    /\ sock' = [sock EXCEPT ![s].state = "closed"]
    /\ LET username == sock[s].username IN
       IF username = NoName
       THEN /\ sent' = << >>
            /\ UNCHANGED <<connections, disconnectedPlayers, forfeitTimers, discClock,
                           waitingQueue, timedOut, arrivals>>
       ELSE /\ connections' = [connections EXCEPT ![username] = NoSocket]
            /\ LET gameID == playerGames[username] IN
               IF gameID # NoGame
               THEN /\ UNCHANGED <<waitingQueue, arrivals>>
                    /\ MutexFree(gamesMutex)
                    /\ LET game == activeGames[gameID] IN
                       IF game.Status = GameStatusActive
                       THEN LET playerID == IF game.Player1.Username = username
                                            THEN game.Player1.ID ELSE game.Player2.ID
                                at == discClock + 1
                            IN  /\ disconnectedPlayers' =
                                      [disconnectedPlayers EXCEPT ![username] =
                                          [PlayerID |-> playerID, Username |-> username,
                                           GameID |-> gameID, DisconnectedAt |-> at]]
                                /\ forfeitTimers' = forfeitTimers \cup
                                      {[username |-> username, armedAt |-> at,
                                        reconnected |-> FALSE]}
                                /\ discClock' = at
                                /\ timedOut' = [timedOut EXCEPT ![username] = NoGame]
                                /\ sent' = IfConn(ConnOf(connections',
                                                         OpponentOf(game, username)),
                                                  "opponent-disconnected",
                                                  [time_remaining |-> 30])
                       ELSE /\ sent' = << >>
                            /\ UNCHANGED <<disconnectedPlayers, forfeitTimers, discClock,
                                           timedOut>>
               ELSE /\ waitingQueue' = LeaveQueue(waitingQueue, username)
                    /\ arrivals' = IF InQueue(waitingQueue, username) THEN << >>
                                   ELSE arrivals
                    /\ sent' = << >>
                    /\ UNCHANGED <<disconnectedPlayers, forfeitTimers, discClock,
                                   timedOut>>
    /\ last' = [op |-> "handleDisconnection", socket |-> s,
                username |-> sock[s].username,
                gameID |-> IF sock[s].username = NoName THEN NoGame
                           ELSE playerGames[sock[s].username]]
    /\ UNCHANGED <<mutexes, threads, setting, gamesMutex, activeGames, botTimers, matchTasks, playerGames,
                   joinClock, opening, moves>>

(***************************************************************************)
(* The timers and the match-creation goroutines                            *)
(***************************************************************************)
\* a handler that tells the player who was timed out
ForfeitMessagesToLoser(conns, game, playerID) ==
    LET loserUsername == IF game.Player1.ID = playerID
                         THEN game.Player1.Username ELSE game.Player2.Username
    IN  IfConn(ConnOf(conns, loserUsername), "game-over",
               [Winner |-> loserUsername, Reason |-> "forfeit", Board |-> game.Board])

\* what handleForfeit writes: game-over to the winner's socket, if bound
ForfeitMessages(conns, game, playerID) ==
    LET winnerUsername == IF game.Player1.ID = playerID
                          THEN game.Player2.Username ELSE game.Player1.Username
    IN  IfConn(ConnOf(conns, winnerUsername), "game-over",
               [Winner |-> winnerUsername, Reason |-> "forfeit", Board |-> game.Board])

\* startForfeitTimer after its sleep
FireForfeitTimer(t) ==
    /\ t \in forfeitTimers
    /\ forfeitTimers' = forfeitTimers \ {t}
    /\ IF HasRecord(t.username)
       THEN LET player == disconnectedPlayers[t.username] IN
            \E io \in Io :
            \E r \in {BestEffort(io, activeGames,
                                  ForfeitGame(activeGames, player.GameID,
                                              player.PlayerID))} :
                /\ MutexFree(gamesMutex)
                /\ disconnectedPlayers' = ForgetRecord(disconnectedPlayers, t.username)
                /\ activeGames' = r.games
                /\ timedOut' = [timedOut EXCEPT ![t.username] = player.GameID]
                /\ sent' = IF r.err # "" THEN << >>
                           ELSE ForfeitMessages(connections, r.games[player.GameID],
                                                player.PlayerID)
                /\ last' = [op |-> "ForfeitGame", gameID |-> player.GameID,
                            playerID |-> player.PlayerID, err |-> r.err, io |-> io,
                            username |-> t.username,
                            before |-> activeGames[player.GameID],
                            armedAt |-> t.armedAt,
                            reconnected |-> t.reconnected,
                            disconnectedAt |-> player.DisconnectedAt]
       ELSE /\ last' = NoCall
            /\ sent' = << >>
            /\ UNCHANGED <<disconnectedPlayers, activeGames, timedOut>>
    /\ UNCHANGED <<mutexes, threads, setting, gamesMutex, waitingQueue, botTimers, matchTasks, connections,
                   playerGames, sock, joinClock, discClock, opening, moves, arrivals>>

\* startBotTimer after its sleep
FireBotTimer(player) ==
    /\ player \in botTimers
    /\ botTimers' = botTimers \ {player}
    /\ LET k == FirstEntry(waitingQueue, player.Username, 1) IN
       IF k # 0
       THEN /\ waitingQueue' = RemoveAt(waitingQueue, k)
            /\ matchTasks' = matchTasks \cup
                  {[kind |-> "bot", player1 |-> player, player2 |-> player]}
            /\ arrivals' = << >>
            /\ last' = [op |-> "startBotTimer", player |-> player,
                        entry |-> waitingQueue[k]]
       ELSE /\ last' = NoCall
            /\ UNCHANGED <<waitingQueue, matchTasks, arrivals>>
    /\ sent' = << >>
    /\ UNCHANGED <<mutexes, threads, setting, gamesMutex, activeGames, connections, playerGames,
                   disconnectedPlayers, forfeitTimers, sock, joinClock, discClock,
                   opening, moves, timedOut>>

\* a pairing that gives the first seat yellow and the second red
MatchPlayersArrivalRed(task, botID) ==
    <<PlayerInfo(task.player1.PlayerID, task.player1.Username, ColorYellow, FALSE),
      IF task.kind = "bot"
      THEN PlayerInfo(botID, "Bot", ColorRed, TRUE)
      ELSE PlayerInfo(task.player2.PlayerID, task.player2.Username, ColorRed, FALSE)>>

\* the PlayerInfo pair createMatch / createBotMatch hands to CreateGame; botID
\* is the id of the row CreatePlayer made for the adversary
MatchPlayers(task, botID) ==
    <<PlayerInfo(task.player1.PlayerID, task.player1.Username, ColorRed, FALSE),
      IF task.kind = "bot"
      THEN PlayerInfo(botID, "Bot", ColorYellow, TRUE)
      ELSE PlayerInfo(task.player2.PlayerID, task.player2.Username, ColorYellow, FALSE)>>

GameStarted(gameID, opponent, yourColor, isBot) ==
    [GameID |-> gameID, Opponent |-> opponent, YourColor |-> yourColor,
     CurrentTurn |-> ColorRed, IsBot |-> isBot]

\* what handlePlayerMatch / handleBotMatch write
StartMessages(conns, task, gameID) ==
    IF task.kind = "bot"
    THEN IfConn(ConnOf(conns, task.player1.Username), "game-started",
                GameStarted(gameID, "Bot", ColorRed, TRUE))
    ELSE IfConn(ConnOf(conns, task.player1.Username), "game-started",
                GameStarted(gameID, task.player2.Username, ColorRed, FALSE))
         \o IfConn(ConnOf(conns, task.player2.Username), "game-started",
                   GameStarted(gameID, task.player1.Username, ColorYellow, FALSE))

\* createMatch with handlePlayerMatch, createBotMatch with handleBotMatch;
\* stored tells whether the store's CreateGame (and CreatePlayer) succeeded
RunMatchTask(task, stored, o) ==
    /\ task \in matchTasks
    /\ matchTasks' = matchTasks \ {task}
    /\ IF ~stored
       THEN /\ sent' = << >>
            /\ last' = [op |-> "CreateGame", task |-> task, stored |-> FALSE,
                        count |-> Len(activeGames)]
            /\ UNCHANGED <<activeGames, playerGames, opening, moves>>
       ELSE /\ Len(activeGames) < MaxGames
            /\ MutexFree(gamesMutex)
            /\ LET gameID == Len(activeGames) + 1
                   players == MatchPlayers(task, BotIdOf(gameID))
               IN  /\ activeGames' = CreateGame(activeGames, players[1], players[2])
                   /\ playerGames' =
                         IF task.kind = "bot"
                         THEN [playerGames EXCEPT ![task.player1.Username] = gameID]
                         ELSE [playerGames EXCEPT ![task.player1.Username] = gameID,
                                                  ![task.player2.Username] = gameID]
                   /\ opening' = Append(opening, o)
                   /\ moves' = Append(moves, << >>)
                   /\ sent' = StartMessages(connections, task, gameID)
                   /\ last' = [op |-> "CreateGame", task |-> task, stored |-> TRUE,
                               count |-> Len(activeGames), gameID |-> gameID]
    /\ UNCHANGED <<mutexes, threads, setting, gamesMutex, waitingQueue, botTimers, connections,
                   disconnectedPlayers, forfeitTimers, sock, joinClock, discClock,
                   timedOut, arrivals>>

Next ==
    \/ \E s \in Env.sockets : Connect(s)
    \/ \E s \in Env.sockets, name \in Env.names \cup {NoName} :
          /\ sock[s].username = NoName \/ Env.retry
          /\ joinClock < MaxSockets
          /\ JoinMatchmaking(s, name)
    \/ \E s \in Env.sockets, gameID \in 0..MaxGames, column \in -1..7 :
          /\ sock[s].username \notin Env.mute
          /\ HandleMakeMove(s, gameID, column)
    \/ \E s \in Env.sockets : FinishMakeMove(s)
    \/ \E s \in Env.sockets : HandleBotMove(s)
    \/ \E s \in Env.sockets : FinishBotMove(s)
    \/ \E s \in Env.sockets, client \in Env.names : HandleReconnectGame(s, client)
    \/ \E s \in Env.sockets : Drop(s)
    \/ \E t \in forfeitTimers : FireForfeitTimer(t)
    \/ \E player \in botTimers : Env.timeout /\ FireBotTimer(player)
    \/ \E task \in matchTasks, stored \in BOOLEAN, o \in Env.openings :
          RunMatchTask(task, stored, o)

Spec == Init /\ [][Next]_vars

\* every timer a run can arm; every entry JoinQueue can make
ForfeitTimerSet ==
    [username : Clients, armedAt : 1..MaxSockets, reconnected : BOOLEAN]

WaitingPlayerSet ==
    {WaitingPlayer(name, s, at) : name \in Clients, s \in Sockets, at \in 1..MaxSockets}

\* time.Sleep returns, goroutines run, and a call that holds gamesMutex
\* reaches its deferred Unlock
Fairness ==
    /\ \A t \in ForfeitTimerSet : WF_vars(FireForfeitTimer(t))
    /\ \A player \in WaitingPlayerSet : WF_vars(Env.timeout /\ FireBotTimer(player))
    /\ WF_vars(\E task \in matchTasks, stored \in BOOLEAN, o \in Env.openings :
                  RunMatchTask(task, stored, o))
    /\ \A s \in Sockets : WF_vars(FinishMakeMove(s)) /\ WF_vars(FinishBotMove(s))

FairSpec == Spec /\ Fairness
(***************************************************************************)
(* One game against the adversary, played over every board: the human      *)
(* drops in any column, and so does a stand-in for the adversary on the     *)
(* boards where neither side can complete four, and while the opening is   *)
(* played; after it, on the boards where one can and on the boards with    *)
(* few columns left, the adversary is asked (MakeBotMove).  No sockets,     *)
(* one registry.                                                           *)
(***************************************************************************)
MaxProbeMoves == 5

\* the openings of the games played over every board
ProbeOpenings == {"free", "towers", "stairs", "crowd"}

\* the lines of four cells of the board: <<row, column, row step, column step>>
Lines ==
    {<<l[1], l[2], l[3][1], l[3][2]>> :
        l \in {x \in Rows \X Cols \X {<<0, 1>>, <<1, 0>>, <<1, 1>>, <<1, -1>>} :
                  x[1] + 3 * x[3][1] \in Rows /\ x[2] + 3 * x[3][2] \in Cols}}

\* some line of four cells holds four discs of the player
FourInRow(board, playerNum) ==
    \E l \in Lines :
        \A k \in 0..3 : board[l[1] + k * l[3]][l[2] + k * l[4]] = playerNum

\* the columns with room in which a disc of the player would complete four
Completing(board, playerNum) ==
    {col \in Cols : /\ board[0][col] = 0
                    /\ FourInRow(DropDisc(board, col, playerNum), playerNum)}

\* the boards on which GetBestMove returns from one of its two probes
Urgent(board) ==
    findWinningMove(board, botNum) # -1 \/ findWinningMove(board, humanNum) # -1

\* columns with room for the search to be run on the board as it is
MaxOpenCols == 4

\* the boards with few columns left, on which the search is short
Crowded(board) ==
    Cardinality({col \in Cols : IsValidMove(board, col)}) <= MaxOpenCols

\* the opening is still being played
Scripted == activeGames[1].MoveCount < Len(Openings[opening[1]])

\* the columns a player sends next: the opening's, then any
ProbeCols ==
    LET n == activeGames[1].MoveCount + 1
        script == Openings[opening[1]]
    IN  IF activeGames[1].Status # GameStatusActive THEN {}
        ELSE IF n <= Len(script) THEN {script[n]}
        ELSE IF n <= Len(script) + MaxProbeMoves THEN Cols
        ELSE {}

HumanCols == IF activeGames[1].CurrentTurn = ColorRed THEN ProbeCols ELSE {}

\* the columns tried in the adversary's place
StandInCols ==
    IF activeGames[1].CurrentTurn = ColorYellow /\ ProbeCols # {}
          /\ (Scripted \/ ~Urgent(activeGames[1].Board))
    THEN ProbeCols ELSE {}

BotInit ==
    /\ activeGames = CreateGame(<< >>, PlayerInfo(PlayerIdOf("A"), "A", ColorRed, FALSE),
                                PlayerInfo(BotIdOf(1), "Bot", ColorYellow, TRUE))
    /\ gamesMutex = NoSocket
    /\ waitingQueue = << >>
    /\ botTimers = {}
    /\ matchTasks = {}
    /\ connections = [n \in Clients |-> NoSocket]
    /\ playerGames = [n \in Clients |-> NoGame]
    /\ disconnectedPlayers = [n \in Clients |-> NoRecord]
    /\ forfeitTimers = {}
    /\ sock = [s \in Sockets |-> [state |-> "none", username |-> NoName, call |-> NoCall]]
    /\ joinClock = 0
    /\ discClock = 0
    /\ opening \in {<<o>> : o \in ProbeOpenings}
    /\ moves = << << >> >>
    /\ setting = "solo"
    /\ timedOut = [n \in Clients |-> NoGame]
    /\ arrivals = << >>
    /\ last = NoCall
    /\ sent = << >>
    /\ mutexes = Unlocked
    /\ threads = Idle

\* MakeMove(1, playerID, column) from Lock to Unlock
ProbeMove(playerID, column) ==
    LET game == activeGames[1] IN
    /\ \E err \in {MakeMoveCheck(activeGames, 1, playerID, column)} :
       \E r \in {IF err # "" THEN Failure(activeGames, err)
                  ELSE MakeMoveApply(activeGames, 1, CurrentPlayer(game), column)} :
           /\ activeGames' = r.games
           /\ last' = Call("MakeMove", 1, playerID, column, r, game, IoOk)
    /\ UNCHANGED <<mutexes, threads, moves, setting, gamesMutex, waitingQueue, botTimers, matchTasks,
                   connections, playerGames, disconnectedPlayers, forfeitTimers, sock,
                   joinClock, discClock, opening, timedOut, arrivals, sent>>

\* the human's move
HumanMove(column) == ProbeMove(activeGames[1].Player1.ID, column)

\* a move in the adversary's place, on a board where no four can be completed
StandInMove(column) == ProbeMove(activeGames[1].Player2.ID, column)

\* MakeBotMove(1) from Lock to Unlock, on a board where a four can be completed
\* or few columns are left
BotMove ==
    LET game == activeGames[1] IN
    /\ game.Status = GameStatusActive
    /\ game.CurrentTurn = ColorYellow
    /\ ~Scripted
    /\ Urgent(game.Board) \/ Crowded(game.Board)
    /\ \E err \in {MakeBotMoveCheck(activeGames, 1)} :
       \E r \in {IF err # "" THEN Failure(activeGames, err)
                  ELSE MakeBotMoveApply(activeGames, 1)} :
           /\ activeGames' = r.games
           /\ last' = Call("MakeBotMove", 1, 0, -1, r, game, IoOk)
    /\ UNCHANGED <<mutexes, threads, moves, setting, gamesMutex, waitingQueue, botTimers, matchTasks,
                   connections, playerGames, disconnectedPlayers, forfeitTimers, sock,
                   joinClock, discClock, opening, timedOut, arrivals, sent>>

BotNext ==
    \/ \E column \in HumanCols : HumanMove(column)
    \/ \E column \in StandInCols : StandInMove(column)
    \/ BotMove

BotSpec == BotInit /\ [][BotNext]_vars

(***************************************************************************)
(* The locks.  Every handler, timer and task is followed as the sequence   *)
(* of Lock / RLock / Unlock / RUnlock calls it makes, deferred unlocks at   *)
(* the place the function returns.  sync.RWMutex: Lock waits for the        *)
(* writer and the readers to leave, and RLock waits while a writer holds    *)
(* the mutex or is blocked in Lock.                                         *)
(***************************************************************************)
\* handleJoinMatchmaking: connections[username] = conn, then JoinQueue
LocksOfHandleJoinMatchmaking ==
    << <<"Lock", "connMutex">>, <<"Unlock", "connMutex">>,
       <<"Lock", "queueMutex">>, <<"Unlock", "queueMutex">> >>

\* startBotTimer after the sleep
LocksOfStartBotTimer == << <<"Lock", "queueMutex">>, <<"Unlock", "queueMutex">> >>

\* createMatch / createBotMatch: CreateGame, then handlePlayerMatch / handleBotMatch
LocksOfCreateMatch ==
    << <<"Lock", "gamesMutex">>, <<"Unlock", "gamesMutex">>,
       <<"Lock", "connMutex">>, <<"Unlock", "connMutex">> >>

\* handleMakeMove: GetGame, MakeMove, the opponent's connection, MakeBotMove
LocksOfHandleMakeMove ==
    << <<"RLock", "gamesMutex">>, <<"RUnlock", "gamesMutex">>,
       <<"Lock", "gamesMutex">>, <<"Unlock", "gamesMutex">>,
       <<"RLock", "connMutex">>, <<"RUnlock", "connMutex">>,
       <<"Lock", "gamesMutex">>, <<"Unlock", "gamesMutex">> >>

\* handleReconnectGame: HandleReconnection (GetGame and the callback
\* handleReconnect under disconnectedMutex), then the two maps and the opponent
LocksOfHandleReconnectGame ==
    << <<"Lock", "disconnectedMutex">>,
       <<"RLock", "gamesMutex">>, <<"RUnlock", "gamesMutex">>,
       <<"Unlock", "disconnectedMutex">>,
       <<"Lock", "connMutex">>, <<"Unlock", "connMutex">>,
       <<"RLock", "connMutex">>, <<"RUnlock", "connMutex">> >>

\* the same with the handleReconnect of reconnection_fix.go as the callback
LocksOfHandleReconnectGameFix ==
    << <<"Lock", "disconnectedMutex">>,
       <<"RLock", "gamesMutex">>, <<"RUnlock", "gamesMutex">>,
       <<"RLock", "connMutex">>, <<"RUnlock", "connMutex">>,
       <<"RLock", "connMutex">>, <<"RUnlock", "connMutex">>,
       <<"Unlock", "disconnectedMutex">>,
       <<"Lock", "connMutex">>, <<"Unlock", "connMutex">>,
       <<"RLock", "connMutex">>, <<"RUnlock", "connMutex">> >>

\* a handler that keeps connMutex until it returns
LocksOfHandleDisconnectionHeld ==
    << <<"Lock", "connMutex">>,
       <<"RLock", "gamesMutex">>, <<"RUnlock", "gamesMutex">>,
       <<"Lock", "disconnectedMutex">>, <<"Unlock", "disconnectedMutex">>,
       <<"Unlock", "connMutex">> >>

\* handleDisconnection of a name with a game: the maps, GetGame,
\* TrackDisconnection, the opponent's connection
LocksOfHandleDisconnection ==
    << <<"Lock", "connMutex">>, <<"Unlock", "connMutex">>,
       <<"RLock", "gamesMutex">>, <<"RUnlock", "gamesMutex">>,
       <<"Lock", "disconnectedMutex">>, <<"Unlock", "disconnectedMutex">>,
       <<"RLock", "connMutex">>, <<"RUnlock", "connMutex">> >>

\* handleDisconnection of a name without a game: the maps, LeaveQueue
LocksOfHandleDisconnectionQueued ==
    << <<"Lock", "connMutex">>, <<"Unlock", "connMutex">>,
       <<"Lock", "queueMutex">>, <<"Unlock", "queueMutex">> >>

\* startForfeitTimer after the sleep: ForfeitGame and the callback
\* handleForfeit (GetGame, the winner's connection) under disconnectedMutex
LocksOfStartForfeitTimer ==
    << <<"Lock", "disconnectedMutex">>,
       <<"Lock", "gamesMutex">>, <<"Unlock", "gamesMutex">>,
       <<"RLock", "gamesMutex">>, <<"RUnlock", "gamesMutex">>,
       <<"RLock", "connMutex">>, <<"RUnlock", "connMutex">>,
       <<"Unlock", "disconnectedMutex">> >>

LockPaths ==
    [handleJoinMatchmaking |-> LocksOfHandleJoinMatchmaking,
     startBotTimer |-> LocksOfStartBotTimer,
     createMatch |-> LocksOfCreateMatch,
     handleMakeMove |-> LocksOfHandleMakeMove,
     handleReconnectGame |-> LocksOfHandleReconnectGame,
     handleReconnectGameFix |-> LocksOfHandleReconnectGameFix,
     handleDisconnection |-> LocksOfHandleDisconnection,
     handleDisconnectionQueued |-> LocksOfHandleDisconnectionQueued,
     startForfeitTimer |-> LocksOfStartForfeitTimer]

Busy(t) == threads[t].path # ""

\* the call the goroutine makes next
OpOf(t) == LockPaths[threads[t].path][threads[t].pc]

\* the mutexes the goroutine holds
Held(t) == {m \in Mutexes : mutexes[m].writer = t \/ t \in mutexes[m].readers}

Free(m) == mutexes[m].writer = NoThread /\ mutexes[m].readers = {}

\* the goroutine after the call it was at has returned
Advanced(t) ==
    IF threads[t].pc = Len(LockPaths[threads[t].path])
    THEN [threads EXCEPT ![t] = [path |-> "", pc |-> 0]]
    ELSE [threads EXCEPT ![t].pc = @ + 1]

LockInit ==
    /\ activeGames = << >>
    /\ gamesMutex = NoSocket
    /\ waitingQueue = << >>
    /\ botTimers = {}
    /\ matchTasks = {}
    /\ connections = [n \in Clients |-> NoSocket]
    /\ playerGames = [n \in Clients |-> NoGame]
    /\ disconnectedPlayers = [n \in Clients |-> NoRecord]
    /\ forfeitTimers = {}
    /\ sock = [s \in Sockets |-> [state |-> "none", username |-> NoName, call |-> NoCall]]
    /\ joinClock = 0
    /\ discClock = 0
    /\ opening = << >>
    /\ moves = << >>
    /\ setting = "duel"
    /\ timedOut = [n \in Clients |-> NoGame]
    /\ arrivals = << >>
    /\ last = NoCall
    /\ sent = << >>
    /\ mutexes = Unlocked
    /\ threads = Idle

\* a reader gets a message, a timer wakes up, a task is started
StartPath(t, path) ==
    /\ ~Busy(t)
    /\ threads' = [threads EXCEPT ![t] = [path |-> path, pc |-> 1]]
    /\ UNCHANGED <<mutexes, setting, activeGames, gamesMutex, waitingQueue, botTimers,
                   matchTasks, connections, playerGames, disconnectedPlayers,
                   forfeitTimers, sock, joinClock, discClock, opening, moves, timedOut,
                   arrivals, last, sent>>

\* Lock() finds the mutex taken and blocks
AwaitLock(t) ==
    /\ Busy(t)
    /\ OpOf(t)[1] = "Lock"
    /\ ~Free(OpOf(t)[2])
    /\ t \notin mutexes[OpOf(t)[2]].waiting
    /\ mutexes' = [mutexes EXCEPT ![OpOf(t)[2]].waiting = @ \cup {t}]
    /\ UNCHANGED <<threads, setting, activeGames, gamesMutex, waitingQueue, botTimers,
                   matchTasks, connections, playerGames, disconnectedPlayers,
                   forfeitTimers, sock, joinClock, discClock, opening, moves, timedOut,
                   arrivals, last, sent>>

\* Lock() or RLock() returns
Acquire(t) ==
    /\ Busy(t)
    /\ LET m == OpOf(t)[2] IN
       \/ /\ OpOf(t)[1] = "Lock"
          /\ Free(m)
          /\ mutexes' = [mutexes EXCEPT ![m].writer = t, ![m].waiting = @ \ {t}]
       \/ /\ OpOf(t)[1] = "RLock"
          /\ mutexes[m].writer = NoThread
          /\ mutexes[m].waiting = {}
          /\ mutexes' = [mutexes EXCEPT ![m].readers = @ \cup {t}]
    /\ threads' = Advanced(t)
    /\ UNCHANGED <<setting, activeGames, gamesMutex, waitingQueue, botTimers,
                   matchTasks, connections, playerGames, disconnectedPlayers,
                   forfeitTimers, sock, joinClock, discClock, opening, moves, timedOut,
                   arrivals, last, sent>>

\* Unlock() or RUnlock()
Release(t) ==
    /\ Busy(t)
    /\ LET m == OpOf(t)[2] IN
       \/ /\ OpOf(t)[1] = "Unlock"
          /\ mutexes' = [mutexes EXCEPT ![m].writer = NoThread]
       \/ /\ OpOf(t)[1] = "RUnlock"
          /\ mutexes' = [mutexes EXCEPT ![m].readers = @ \ {t}]
    /\ threads' = Advanced(t)
    /\ UNCHANGED <<setting, activeGames, gamesMutex, waitingQueue, botTimers,
                   matchTasks, connections, playerGames, disconnectedPlayers,
                   forfeitTimers, sock, joinClock, discClock, opening, moves, timedOut,
                   arrivals, last, sent>>

LockNext ==
    \/ \E t \in Threads, path \in DOMAIN LockPaths : StartPath(t, path)
    \/ \E t \in Threads : AwaitLock(t)
    \/ \E t \in Threads : Acquire(t)
    \/ \E t \in Threads : Release(t)

LockSpec == LockInit /\ [][LockNext]_vars

(***************************************************************************)
(* Properties of the registry.                                             *)
(* `last' is the registry call that ended in the step into the state, with *)
(* `before' the game as the call found it; activeGames is what it left.    *)
(***************************************************************************)
Essentials(game) ==
    <<game.Status, game.Winner, game.Board, game.MoveCount, game.CurrentTurn>>

IsMove(call) == call.op \in {"MakeMove", "MakeBotMove"}

\* the colour of the player a MakeMove call was made for
MoverColor(call) ==
    IF call.playerID = call.before.Player1.ID THEN ColorRed ELSE ColorYellow

Discs(board, playerNum) ==
    Cardinality({rc \in Rows \X Cols : board[rc[1]][rc[2]] = playerNum})

\* C1: once a game's status has left Active, its status, winner, board, move
\* count and turn never change again, whatever is called on it afterwards
\* (a forfeit timer firing after the opponent has won or drawn included).
C1_FinishedGameFrozen ==
    [][\A g \in DOMAIN activeGames :
          activeGames[g].Status # GameStatusActive =>
              Essentials(activeGames'[g]) = Essentials(activeGames[g])]_vars

\* C2: the moves accepted for a game, by MakeMove and MakeBotMove calls made
\* from any number of sockets at once, are numbered 1, 2, 3, ... with no
\* duplicate and no gap, and each was validated against exactly the state the
\* previous accepted move left: the game a call validated is still the game
\* it applies its move to.
C2_MovesSerialized ==
    /\ \A g \in DOMAIN moves :
          /\ activeGames[g].MoveCount = Len(moves[g])
          /\ \A i \in DOMAIN moves[g] :
                moves[g][i].MoveNumber = i /\ moves[g][i].seen = i - 1
    /\ \A s \in Sockets :
          sock[s].state \in {"moving", "botmoving"} =>
              sock[s].call.before = activeGames[sock[s].call.gameID]

\* a call holds the mutex in the middle of its move while another socket of a
\* participant of the same game is free to call, two moves already accepted
C2_Witness ==
    \E s, t \in Sockets :
        /\ s # t
        /\ gamesMutex = s
        /\ sock[s].state \in {"moving", "botmoving"}
        /\ sock[t].state = "open"
        /\ sock[t].username \in {activeGames[sock[s].call.gameID].Player1.Username,
                                 activeGames[sock[s].call.gameID].Player2.Username}
        /\ Len(moves[sock[s].call.gameID]) >= 2

\* C3: MakeMove for the player whose colour is not the colour in turn, on an
\* Active game, fails with "not your turn" and leaves the game as it was; so
\* does the call for any player id that is not the id of the player to move.
C3_WrongTurnRefused ==
    /\ (/\ last.op = "MakeMove"
        /\ last.before.Status = GameStatusActive
        /\ MoverColor(last) # last.before.CurrentTurn)
       => /\ last.err = "not your turn"
          /\ last.move = NoPayload
          /\ last.over = NoPayload
          /\ activeGames[last.gameID] = last.before
    /\ \A g \in DOMAIN activeGames :
          activeGames[g].Status = GameStatusActive
          => LET toMove == IF activeGames[g].CurrentTurn = ColorRed
                           THEN activeGames[g].Player1.ID
                           ELSE activeGames[g].Player2.ID
             IN  \A id \in {PlayerIdOf(n) : n \in Names \cup {"C"}} \cup {BotIdOf(g)},
                    column \in -1..7 :
                     id # toMove
                     => MakeMoveCheck(activeGames, g, id, column) = "not your turn"

\* yellow's player calls while it is red's turn, some moves into the game
C3_Witness ==
    /\ last.op = "MakeMove"
    /\ last.err = "not your turn"
    /\ last.before.MoveCount >= 2
    /\ last.before.CurrentTurn = ColorRed
    /\ MoverColor(last) = ColorYellow

\* C4: MakeMove by the player in turn on an Active game is accepted exactly
\* when the column is one of 0..6 and its top cell is empty; columns -1 and 7
\* and a full column are refused with "invalid move: column is full" and the
\* game is left as it was; an accepted disc lands on the lowest empty cell of
\* its column, so column 6 on an empty board lands in row 5.
C4_ColumnValidity ==
    (/\ last.op = "MakeMove"
     /\ last.before.Status = GameStatusActive
     /\ MoverColor(last) = last.before.CurrentTurn)
    => LET column == last.column
           board == last.before.Board
           ok == column \in 0..6 /\ board[0][column] = 0
       IN  /\ (last.err = "") <=> ok
           /\ ~ok => /\ last.err = "invalid move: column is full"
                     /\ activeGames[last.gameID] = last.before
           /\ ok => /\ last.move.Column = column
                    /\ board[last.move.Row][column] = 0
                    /\ \A r \in Rows : r > last.move.Row => board[r][column] # 0
                    /\ activeGames[last.gameID].Board =
                          [board EXCEPT ![last.move.Row][column] =
                              IF last.before.CurrentTurn = ColorRed THEN 1 ELSE 2]
           /\ (ok /\ last.before.MoveCount = 0 /\ column = 6) => last.move.Row = 5

\* the player in turn sends a column of the board that is full
C4_Witness ==
    /\ last.op = "MakeMove"
    /\ last.column \in Cols
    /\ last.before.Board[0][last.column] # 0
    /\ last.before.Status = GameStatusActive
    /\ MoverColor(last) = last.before.CurrentTurn
    /\ last.err = "invalid move: column is full"

\* C5: MakeMove and MakeBotMove on a game that is not Active return "game is
\* not active" and change nothing; for a game id the registry does not hold,
\* GetGame, MakeMove and MakeBotMove return "game not found".
C5_InactiveRefused ==
    /\ (IsMove(last) /\ last.before.Status # GameStatusActive)
       => /\ last.err = "game is not active"
          /\ last.move = NoPayload
          /\ last.over = NoPayload
          /\ activeGames[last.gameID] = last.before
    /\ last.op = "GetGame"
       => ~Exists(activeGames, last.gameID) /\ last.err = "game not found"
    /\ \A gameID \in 0..(MaxGames + 1) :
          ~Exists(activeGames, gameID)
          => /\ MakeMoveCheck(activeGames, gameID, PlayerIdOf("A"), 3) = "game not found"
             /\ MakeBotMoveCheck(activeGames, gameID) = "game not found"

\* the adversary's move comes due on a game a forfeit has ended meanwhile
C5_Witness ==
    /\ last.op = "MakeBotMove"
    /\ last.before.Status = GameStatusForfeited
    /\ last.err = "game is not active"

\* C6: a game's MoveCount is the number of non-empty cells of its board, and
\* never more than 42.
C6_MoveCountIsDiscs ==
    \A g \in DOMAIN activeGames :
        /\ activeGames[g].MoveCount =
              Discs(activeGames[g].Board, 1) + Discs(activeGames[g].Board, 2)
        /\ activeGames[g].MoveCount <= 42

\* a board filled to its last cell
C6_Witness ==
    \E g \in DOMAIN activeGames :
        activeGames[g].MoveCount = 42 /\ IsFull(activeGames[g].Board)

\* C7: while a game is Active it is red's turn exactly when MoveCount is even;
\* the N-th accepted move is red's for odd N and yellow's for even N; the two
\* colours' disc counts differ by at most one and red is never behind.
C7_TurnParity ==
    \A g \in DOMAIN activeGames :
        /\ activeGames[g].Status = GameStatusActive
           => (activeGames[g].CurrentTurn = ColorRed
               <=> activeGames[g].MoveCount % 2 = 0)
        /\ \A i \in DOMAIN moves[g] :
              moves[g][i].Color = (IF i % 2 = 1 THEN ColorRed ELSE ColorYellow)
        /\ Discs(activeGames[g].Board, 1) - Discs(activeGames[g].Board, 2) \in {0, 1}

\* an Active game after an odd number of moves, yellow in turn
C7_Witness ==
    \E g \in DOMAIN activeGames :
        /\ activeGames[g].Status = GameStatusActive
        /\ activeGames[g].MoveCount >= 3
        /\ activeGames[g].MoveCount % 2 = 1
        /\ activeGames[g].CurrentTurn = ColorYellow

\* C8: an accepted move is classified in this order: if it completes a line of
\* four the game is Completed and the mover wins (also when the disc fills the
\* board: a winning 42nd move is a win); otherwise if the board is full the
\* game is a Draw with no winner; otherwise the turn passes to the other
\* colour.  A game-over result is returned in exactly the first two cases.
C8_Classification ==
    (IsMove(last) /\ last.err = "")
    => LET game == activeGames[last.gameID]
           won == CheckWin(game.Board, last.move.Row, last.move.Column)
           full == \A c \in Cols : game.Board[0][c] # 0
           mover == IF last.move.Color = ColorRed
                    THEN last.before.Player1 ELSE last.before.Player2
       IN  /\ won => /\ game.Status = GameStatusCompleted
                     /\ game.Winner = mover.Username
                     /\ last.over # NoPayload
                     /\ last.over.Reason = "win"
                     /\ last.over.Winner = mover.Username
           /\ (~won /\ full) => /\ game.Status = GameStatusDraw
                                /\ game.Winner = NoWinner
                                /\ last.over # NoPayload
                                /\ last.over.Reason = "draw"
           /\ (~won /\ ~full) => /\ game.Status = GameStatusActive
                                 /\ last.over = NoPayload
                                 /\ game.CurrentTurn # last.before.CurrentTurn
                                 /\ last.move.NextTurn = game.CurrentTurn
           /\ (last.over # NoPayload) <=> (won \/ full)

\* the 42nd disc completes a line of four
C8_Witness ==
    /\ IsMove(last)
    /\ last.err = ""
    /\ last.move.MoveNumber = 42
    /\ CheckWin(activeGames[last.gameID].Board, last.move.Row, last.move.Column)
    /\ activeGames[last.gameID].Status = GameStatusCompleted

\* C9: ForfeitGame on an Active game makes it Forfeited with the forfeiting
\* player's opponent as winner; on a game that is not Active it is a no-op
\* that returns an error: status, winner and CompletedAt stay as they were.
C9_ForfeitOnlyActive ==
    last.op = "ForfeitGame"
    => LET game == activeGames[last.gameID]
           opponent == IF last.playerID = last.before.Player1.ID
                       THEN last.before.Player2 ELSE last.before.Player1
       IN  IF last.before.Status = GameStatusActive
           THEN /\ last.err = ""
                /\ game.Status = GameStatusForfeited
                /\ game.Winner = opponent.Username
           ELSE /\ last.err # ""
                /\ game.Status = last.before.Status
                /\ game.Winner = last.before.Winner
                /\ game.CompletedAt = last.before.CompletedAt

\* C10: the timer armed for a disconnect that was followed by a successful
\* reconnect never forfeits the game, also when the same player disconnects
\* again afterwards: the player is not forfeited before the timer of their
\* latest disconnect runs out.
C10_NoStaleForfeit ==
    last.op = "ForfeitGame" => ~last.reconnected

(***************************************************************************)
(* Properties of reconnection, forfeit and matchmaking.                    *)
(* `sent' is what the step into the state wrote to the sockets.            *)
(***************************************************************************)
IsReconnect == last.op = "HandleReconnection"

Types(messages) == {messages[i].type : i \in DOMAIN messages}

\* C11: a reconnect-game of a user whose disconnect has already been timed
\* out restores nothing: the record is gone, the socket is answered with the
\* error, no game-restored is written and the game is still Forfeited
C11_LateReconnectRefused ==
    (IsReconnect /\ timedOut[last.client] # NoGame) =>
        /\ ~last.found
        /\ ~HasRecord(last.client)
        /\ sent = <<ErrorMsg(last.socket, "Failed to reconnect to game")>>
        /\ "game-restored" \notin Types(sent)
        /\ activeGames[timedOut[last.client]].Status = GameStatusForfeited

\* a socket bound to the name asks after the timer took the record
C11_Witness ==
    /\ IsReconnect
    /\ last.username = last.client
    /\ timedOut[last.client] # NoGame
    /\ ~last.found

\* the game-restored message handleReconnectGame would write for the name
Restored(s, username, game) ==
    Msg(s, "game-restored",
        [game_id |-> game.GameID, board |-> game.Board,
         current_turn |-> game.CurrentTurn, move_count |-> game.MoveCount,
         your_color |-> IF game.Player1.Username = username THEN game.Player1.Color
                        ELSE game.Player2.Color,
         opponent |-> OpponentOf(game, username)])

\* C12: when a participant of an Active game whose socket was lost sends
\* reconnect-game (before the timeout, the record still there), the record is
\* removed, the name is bound to the asking socket, that socket is sent
\* game-restored with the current board, move count, turn, the user's colour
\* and the opponent's name, and the connected opponent is sent
\* opponent-reconnected
C12_ReconnectRestores ==
    (/\ IsReconnect
     /\ last.record # NoRecord
     /\ activeGames[last.record.GameID].Status = GameStatusActive) =>
        LET game == activeGames[last.record.GameID]
            opponentConn == ConnOf(connections, OpponentOf(game, last.client))
        IN  /\ ~HasRecord(last.client)
            /\ connections[last.client] = last.socket
            /\ playerGames[last.client] = last.record.GameID
            /\ Len(sent) >= 1
            /\ sent[1] = Restored(last.socket, last.client, game)
            /\ opponentConn # NoSocket =>
                   \E i \in DOMAIN sent : /\ sent[i].to = opponentConn
                                           /\ sent[i].type = "opponent-reconnected"

\* C13: reconnect-game restores only if there is a record and the recorded
\* game is still Active; a user whose game ended while away is refused with
\* the error
C13_RestoreOnlyActive ==
    IsReconnect =>
        /\ "game-restored" \in Types(sent) =>
               /\ last.record # NoRecord
               /\ last.before.Status = GameStatusActive
        /\ (/\ last.record # NoRecord
            /\ activeGames[last.record.GameID].Status # GameStatusActive) =>
               sent = <<ErrorMsg(last.socket, "Failed to reconnect to game")>>

\* the state entered by handleDisconnection of a user seated in an Active game
DroppedInActive ==
    /\ last.op = "handleDisconnection"
    /\ last.gameID # NoGame
    /\ activeGames[last.gameID].Status = GameStatusActive

\* the state entered by a forfeit timer that found its user's record and the
\* game Active
TimedOutActive ==
    /\ last.op = "ForfeitGame"
    /\ last.before.Status = GameStatusActive

C14_Tracked ==
    DroppedInActive =>
        LET game == activeGames[last.gameID]
            opponentConn == ConnOf(connections, OpponentOf(game, last.username))
        IN  /\ HasRecord(last.username)
            /\ disconnectedPlayers[last.username].GameID = last.gameID
            /\ \E t \in forfeitTimers :
                   /\ t.username = last.username
                   /\ t.armedAt = disconnectedPlayers[last.username].DisconnectedAt
            /\ opponentConn # NoSocket =>
                   sent = <<Msg(opponentConn, "opponent-disconnected",
                                [time_remaining |-> 30])>>

C14_Forfeited ==
    TimedOutActive =>
        LET game == activeGames[last.gameID]
            opponent == OpponentOf(last.before, last.username)
            opponentConn == ConnOf(connections, opponent)
        IN  /\ ~HasRecord(last.username)
            /\ game.Status = GameStatusForfeited
            /\ game.Winner = opponent
            /\ game.Board = last.before.Board
            /\ opponentConn # NoSocket =>
                   sent = <<Msg(opponentConn, "game-over",
                                [Winner |-> opponent, Reason |-> "forfeit",
                                 Board |-> game.Board])>>

\* the record of the user is answered: by a reconnect that found it or by
\* the timer
Answered(username) ==
    \/ IsReconnect /\ last.found /\ last.username = username
    \/ last.op = "ForfeitGame" /\ last.username = username

Seated(username, gameID) ==
    /\ activeGames[gameID].Status = GameStatusActive
    /\ username \in {activeGames[gameID].Player1.Username,
                      activeGames[gameID].Player2.Username}

\* the states of the player state machine the name is in: Disconnected while
\* the registry holds its record, InGame while seated in an Active game with
\* no record, InQueue while the queue holds an entry of the name
PlayerStates(username) ==
    {st \in {"InQueue", "InGame", "Disconnected"} :
        \/ st = "InQueue" /\ InQueue(waitingQueue, username)
        \/ st = "Disconnected" /\ HasRecord(username)
        \/ st = "InGame" /\ ~HasRecord(username)
                         /\ \E gameID \in DOMAIN activeGames : Seated(username, gameID)}

\* C15: every name is in at most one of InQueue, InGame and Disconnected, is
\* seated in at most one Active game, and a join-matchmaking of a name that is
\* seated in an Active game or has a record does not enqueue it
C15_OneStatePerName ==
    \A username \in Names :
        /\ Cardinality(PlayerStates(username)) <= 1
        /\ Cardinality({gameID \in DOMAIN activeGames : Seated(username, gameID)}) <= 1
        /\ (/\ last.op = "JoinQueue"
            /\ last.username = username
            /\ \/ HasRecord(username)
               \/ \E gameID \in DOMAIN activeGames : Seated(username, gameID))
           => ~InQueue(waitingQueue, username)

\* the state entered by a join-matchmaking that JoinQueue accepted
Joined == last.op = "JoinQueue" /\ ~InQueue(last.queue, last.username)

\* the entry JoinQueue made for the join that led into the state
Arrival == WaitingPlayer(last.username, last.socket, joinClock)

\* C16: a join accepted while the queue is not empty is paired with the head
\* of the queue: the head is removed, the pair (head, arrival) is handed to
\* createMatch, the arrival is not enqueued and no timer is armed for it
C16_HeadOfLinePairing ==
    (Joined /\ Len(last.queue) > 0) =>
        /\ waitingQueue = Tail(last.queue)
        /\ [kind |-> "match", player1 |-> Head(last.queue), player2 |-> Arrival]
              \in matchTasks
        /\ \A i \in DOMAIN waitingQueue : waitingQueue[i] # Arrival
        /\ ~InQueue(waitingQueue, last.username)
        /\ Arrival \notin botTimers
        /\ arrivals[Len(arrivals)] = Arrival
        /\ arrivals[Len(arrivals) - 1] = Head(last.queue)

\* a second player joined while the first was waiting
C16_Witness ==
    /\ Joined
    /\ Len(last.queue) = 1
    /\ last.queue[1].Username # last.username
    /\ waitingQueue = << >>

\* the match JoinQueue hands to createMatch for a pair
Match(head, arrival) == [kind |-> "match", player1 |-> head, player2 |-> arrival]

\* C17 as stated: of three joins accepted in a row with no leave or timeout
\* between them, the third is paired with the first
C17_ThirdPairsWithFirst ==
    (Joined /\ Len(arrivals) = 3) => Match(arrivals[1], arrivals[3]) \in matchTasks

\* C17: the queue never holds two entries; of the joins accepted in a row
\* with no leave or timeout between them, every second one is paired with the
\* one before it (the earlier as player1) and leaves the queue empty, and
\* every other one waits alone: the second join is paired with the first, the
\* third waits for the fourth
C17_PairsInArrivalOrder ==
    /\ Len(waitingQueue) <= 1
    /\ Joined =>
          LET k == Len(arrivals) IN
          IF k % 2 = 0
          THEN /\ Match(arrivals[k - 1], arrivals[k]) \in matchTasks
               /\ waitingQueue = << >>
          ELSE /\ waitingQueue = <<arrivals[k]>>
               /\ \A task \in matchTasks : arrivals[k] \notin {task.player1, task.player2}

\* the third join in a row waits alone, the first two having been paired
C17_Witness ==
    /\ Joined
    /\ Len(arrivals) = 3
    /\ waitingQueue = <<arrivals[3]>>
    /\ arrivals[1].Username # arrivals[2].Username

\* the state entered by createMatch / createBotMatch with the game stored
Created == last.op = "CreateGame" /\ last.stored

\* the participant's socket, if bound, was sent exactly one message: a
\* game-started with its own colour, the other participant's name, the turn
\* and whether the other participant is the adversary
StartedFor(me, other, game) ==
    LET conn == ConnOf(connections, me.Username)
        mine == {i \in DOMAIN sent : sent[i].to = conn}
    IN  conn # NoSocket =>
           /\ Cardinality(mine) = 1
           /\ \A i \in mine :
                  /\ sent[i].type = "game-started"
                  /\ sent[i].payload.GameID = game.GameID
                  /\ sent[i].payload.YourColor = me.Color
                  /\ sent[i].payload.Opponent = other.Username
                  /\ sent[i].payload.CurrentTurn = ColorRed
                  /\ sent[i].payload.IsBot = other.IsBot

\* C18: in every game the participants have distinct colours, player1 red
\* and player2 yellow, and red is to move while no move has been made; a
\* game made for a pair seats the head of the queue as player1 (red) and the
\* arrival as player2 (yellow), a game made after the matchmaking timeout
\* seats the human as red and the adversary as yellow; and each participant
\* with a bound socket is sent game-started with its own colour, the other
\* participant's name and current turn red
C18_ColoursAndStart ==
    /\ \A gameID \in DOMAIN activeGames :
          LET game == activeGames[gameID] IN
          /\ game.Player1.Color = ColorRed
          /\ game.Player2.Color = ColorYellow
          /\ game.MoveCount = 0 => game.CurrentTurn = ColorRed
          /\ Len(moves[gameID]) > 0 => moves[gameID][1].Color = ColorRed
    /\ Created =>
          LET game == activeGames[last.gameID]
              task == last.task
          IN  /\ game.Status = GameStatusActive
              /\ game.CurrentTurn = ColorRed
              /\ game.Player1.Username = task.player1.Username
              /\ ~game.Player1.IsBot
              /\ task.kind = "match" =>
                     /\ game.Player2.Username = task.player2.Username
                     /\ game.Player1.Username # game.Player2.Username
                     /\ ~game.Player2.IsBot
                     /\ task.player1.JoinedAt < task.player2.JoinedAt
                     /\ StartedFor(game.Player2, game.Player1, game)
              /\ task.kind = "bot" =>
                     /\ game.Player2.IsBot
                     /\ game.Player2.Username = "Bot"
              /\ StartedFor(game.Player1, game.Player2, game)
              /\ \A i \in DOMAIN sent :
                     sent[i].to \in {ConnOf(connections, game.Player1.Username),
                                     ConnOf(connections, game.Player2.Username)}

\* a game made for a pair, both participants told
C18_Witness ==
    /\ Created
    /\ last.task.kind = "match"
    /\ Len(sent) = 2
    /\ sent[1].payload.YourColor = ColorRed
    /\ sent[2].payload.YourColor = ColorYellow

\* the entries of the queue that carry the name
EntriesOf(queue, username) == {i \in DOMAIN queue : queue[i].Username = username}

\* C19: a join-matchmaking under a name the queue already holds is answered
\* with the error "player already in queue" and leaves the queue as it was,
\* arms no timer and starts no match; the queue never holds two entries of
\* one name, and no match or game seats one name on both sides
C19_DuplicateJoinRejected ==
    /\ (last.op = "JoinQueue" /\ EntriesOf(last.queue, last.username) # {}) =>
          /\ sent = <<ErrorMsg(last.socket, "player already in queue")>>
          /\ waitingQueue = last.queue
          /\ botTimers = last.timers
          /\ matchTasks = last.tasks
    /\ \A username \in Names : Cardinality(EntriesOf(waitingQueue, username)) <= 1
    /\ \A task \in matchTasks :
          task.kind = "match" => task.player1.Username # task.player2.Username
    /\ \A gameID \in DOMAIN activeGames :
          activeGames[gameID].Player1.Username # activeGames[gameID].Player2.Username

\* a second socket asked under the name that was waiting
C19_Witness ==
    /\ last.op = "JoinQueue"
    /\ EntriesOf(last.queue, last.username) # {}
    /\ last.queue[1].SocketID # last.socket
    /\ sent = <<ErrorMsg(last.socket, "player already in queue")>>

\* the state entered by a matchmaking timer that found an entry of its name
TimerFoundEntry == last.op = "startBotTimer"

C20_TimerTakesEntry ==
    TimerFoundEntry =>
        /\ EntriesOf(waitingQueue, last.player.Username) = {}
        /\ [kind |-> "bot", player1 |-> last.player, player2 |-> last.player]
              \in matchTasks

C20_AdversaryGame ==
    (Created /\ last.task.kind = "bot") =>
        LET game == activeGames[last.gameID]
            conn == ConnOf(connections, last.task.player1.Username)
        IN  /\ game.Status = GameStatusActive
            /\ game.Player1.Username = last.task.player1.Username
            /\ game.Player1.Color = ColorRed
            /\ game.Player2.IsBot
            /\ game.Player2.Color = ColorYellow
            /\ playerGames[last.task.player1.Username] = last.gameID
            /\ conn # NoSocket =>
                   sent = <<Msg(conn, "game-started",
                                [GameID |-> last.gameID, Opponent |-> "Bot",
                                 YourColor |-> ColorRed, CurrentTurn |-> ColorRed,
                                 IsBot |-> TRUE])>>

\* what ends the wait of a name: a game made for it, its match lost because
\* the store refused the game, or a socket of the name dropping
WaitEnded(username) ==
    \/ /\ last.op = "CreateGame"
       /\ username \in {last.task.player1.Username, last.task.player2.Username}
    \/ last.op = "handleDisconnection" /\ last.username = username

C21_TimerOwnEntryOnly ==
    TimerFoundEntry =>
        /\ last.entry = last.player
        /\ last.entry.JoinedAt = last.player.JoinedAt
        /\ last.entry.SocketID = last.player.SocketID

\* C22: when the socket of a bound name drops and the name is not seated in
\* an Active game, the name has no waiting entry afterwards (so it cannot
\* later be paired or promoted to an adversary match), also when the name
\* finished an earlier game and joined the queue again
C22_DropLeavesQueue ==
    (/\ last.op = "handleDisconnection"
     /\ last.username # NoName
     /\ \A gameID \in DOMAIN activeGames : ~Seated(last.username, gameID)) =>
        EntriesOf(waitingQueue, last.username) = {}

\* the players createMatch / createBotMatch was started for
TakenOut(task) ==
    IF task.kind = "bot" THEN {task.player1} ELSE {task.player1, task.player2}

\* C23: when the store refuses the game, no game is inserted in the registry
\* and every player who was taken out of the queue for the match, if its
\* name is bound to a socket, is sent an error
C23_StoreFailureReported ==
    (last.op = "CreateGame" /\ ~last.stored) =>
        /\ Len(activeGames) = last.count
        /\ \A player \in TakenOut(last.task) :
              LET conn == ConnOf(connections, player.Username) IN
              conn # NoSocket =>
                 \E i \in DOMAIN sent : sent[i].to = conn /\ sent[i].type = "error"

\* the registry as the call found it, as far as the call's game goes
Before(call) == [activeGames EXCEPT ![call.gameID] = call.before]

\* what the call computes from the game it found when store and sink succeed
Computed(call) ==
    IF call.op = "MakeMove"
    THEN MakeMoveApply(Before(call), call.gameID, CurrentPlayer(call.before),
                       call.column)
    ELSE IF call.op = "MakeBotMove"
    THEN MakeBotMoveApply(Before(call), call.gameID)
    ELSE ForfeitGame(Before(call), call.gameID, call.playerID)

\* the state entered by a call that got as far as the store
Applied ==
    \/ last.op = "ForfeitGame"
    \/ /\ last.op = "MakeMove"
       /\ MakeMoveCheck(Before(last), last.gameID, last.playerID, last.column) = ""
    \/ /\ last.op = "MakeBotMove"
       /\ MakeBotMoveCheck(Before(last), last.gameID) = ""

\* C24: whether the store's and the sink's calls succeed or fail, MakeMove,
\* MakeBotMove and ForfeitGame return the same result and leave the same
\* game: what they compute from the game they found
C24_StoreFailuresSwallowed ==
    Applied =>
        /\ last.err = Computed(last).err
        /\ last.op # "ForfeitGame" =>
               /\ last.move = Computed(last).move
               /\ last.over = Computed(last).over
        /\ activeGames[last.gameID] = Computed(last).games[last.gameID]

\* a winning move whose SaveGameMove and CompleteGame failed
C24_Witness ==
    /\ Applied
    /\ last.op = "MakeMove"
    /\ ~last.io.store
    /\ last.over # NoPayload
    /\ activeGames[last.gameID].Status = GameStatusCompleted

\* the name satisfies the bounds declared on JoinMatchmakingPayload.Username
ValidName(username) ==
    /\ username # NoName
    /\ Len(username) >= MinNameLen
    /\ Len(username) <= MaxNameLen

\* C25: a join-matchmaking whose name is missing, shorter than 3 or longer
\* than 50 characters is answered with an error, leaves the socket open and
\* unnamed, binds no name and enqueues nobody
C25_InvalidNameRefused ==
    (/\ last.op \in {"handleJoinMatchmaking", "JoinQueue"}
     /\ ~ValidName(last.username)) =>
        /\ Len(sent) = 1
        /\ sent[1].to = last.socket
        /\ sent[1].type = "error"
        /\ sock[last.socket].state = "open"
        /\ sock[last.socket].username = NoName
        /\ \A username \in Names : connections[username] # last.socket
        /\ waitingQueue = last.queue
        /\ matchTasks = last.tasks

(***************************************************************************)
(* Properties of the adversary and of the board.                           *)
(***************************************************************************)
\* the state entered by MakeBotMove having played on the board it found
Replied == last.op = "MakeBotMove" /\ last.err = ""

LeastOf(columns) == CHOOSE col \in columns : \A other \in columns : col <= other

\* the board of the game, while it is the adversary's turn
AdversaryToMove ==
    /\ activeGames[1].Status = GameStatusActive
    /\ activeGames[1].CurrentTurn = ColorYellow

\* C26: on every board where yellow cannot complete four at once and red
\* can, the search returns the lowest column in which a red disc would
\* complete four, and MakeBotMove plays it; with red on the bottom of columns
\* 0, 1, 2 and the bottom of column 3 empty that is column 3
C26_AdversaryBlocks ==
    /\ AdversaryToMove =>
          LET board == activeGames[1].Board IN
          \E threats \in {Completing(board, humanNum)} :
              (threats # {} /\ Completing(board, botNum) = {}) =>
                  GetBestMove(board) = LeastOf(threats)
    /\ Replied =>
          LET board == last.before.Board IN
          \E threats \in {Completing(board, humanNum)} :
              (threats # {} /\ Completing(board, botNum) = {}) =>
                  /\ last.move.Column = LeastOf(threats)
                  /\ (/\ board[5][0] = humanNum /\ board[5][1] = humanNum
                      /\ board[5][2] = humanNum /\ board[5][3] = 0)
                     => last.move.Column = 3

\* red holds the bottom of columns 0, 1, 2 and the adversary blocks in 3
C26_Witness ==
    /\ Replied
    /\ Completing(last.before.Board, botNum) = {}
    /\ last.before.Board[5][0] = humanNum
    /\ last.before.Board[5][1] = humanNum
    /\ last.before.Board[5][2] = humanNum
    /\ last.before.Board[5][3] = 0
    /\ last.move.Column = 3

\* C27: on every board where some column with room gives yellow four in a
\* row, the search returns the lowest such column, whatever red threatens,
\* and MakeBotMove ends the game as a win of the adversary
C27_AdversaryWins ==
    /\ AdversaryToMove =>
          \E wins \in {Completing(activeGames[1].Board, botNum)} :
              wins # {} => GetBestMove(activeGames[1].Board) = LeastOf(wins)
    /\ Replied =>
          \E wins \in {Completing(last.before.Board, botNum)} :
              wins # {} =>
                 /\ last.move.Column = LeastOf(wins)
                 /\ last.over # NoPayload
                 /\ last.over.Reason = "win"
                 /\ last.over.Winner = last.before.Player2.Username
                 /\ activeGames[last.gameID].Status = GameStatusCompleted
                 /\ activeGames[last.gameID].Winner = "Bot"
                 /\ FourInRow(activeGames[last.gameID].Board, botNum)

\* the adversary completes its four although red threatens elsewhere
C27_Witness ==
    /\ Replied
    /\ Completing(last.before.Board, botNum) # {}
    /\ Completing(last.before.Board, humanNum) # {}
    /\ Completing(last.before.Board, humanNum) # Completing(last.before.Board, botNum)
    /\ last.over # NoPayload

\* the number a colour is stored as on the board
NumOf(color) == IF color = ColorYellow THEN botNum ELSE humanNum

\* the state entered by a MakeMove or MakeBotMove that accepted the move
MoveAccepted == IsMove(last) /\ last.err = ""

\* the results kept for every game are still what they were
ResultsKept ==
    \A g \in DOMAIN moves :
        /\ g \in DOMAIN moves'
        /\ Len(moves'[g]) >= Len(moves[g])
        /\ \A i \in DOMAIN moves[g] : moves'[g][i] = moves[g][i]

\* C28: the board in the result of an accepted move (and in the
\* move-accepted, opponent-moved and game-over messages written from it) is
\* the registry's board right after the move; it differs from the board
\* before the move in the one cell (Row, Column), which holds Color; and no
\* later step alters a result already returned
C28_ResultBoardIsSnapshot ==
    /\ [](MoveAccepted =>
            LET board == activeGames[last.gameID].Board
                was == last.before.Board
                move == last.move
            IN  /\ move.Board = board
                /\ last.over # NoPayload => last.over.Board = board
                /\ move.Row \in Rows /\ move.Column \in Cols
                /\ was[move.Row][move.Column] = 0
                /\ board = [was EXCEPT ![move.Row][move.Column] = NumOf(move.Color)]
                /\ \A i \in DOMAIN sent :
                      sent[i].type \in {"move-accepted", "opponent-moved", "game-over"}
                          => sent[i].payload.Board = board
                /\ moves[last.gameID][Len(moves[last.gameID])].Board = board)
    /\ [][ResultsKept]_vars

\* a move ends the game after six results were returned for it
C28_Witness ==
    /\ MoveAccepted
    /\ last.over # NoPayload
    /\ Len(moves[last.gameID]) >= 7
    /\ moves[last.gameID][1].Board # activeGames[last.gameID].Board
    /\ \E i \in DOMAIN sent : sent[i].type = "game-over"

\* the empty rows of a column
EmptyRows(board, col) == {r \in Rows : board[r][col] = 0}

\* no disc has an empty cell under it
Gravity(board) ==
    \A col \in Cols : \A r \in 0..(NumRows - 2) :
        board[r][col] # 0 => board[r + 1][col] # 0

\* C29: on every reachable board and for every column 0..6 and colour,
\* DropDisc puts the disc in the highest-indexed empty row of the column,
\* changes that cell alone and returns its row; on a full column it returns
\* -1 and changes nothing; MakeMove reports the row DropDisc returned; and
\* every reachable board obeys gravity
C29_DropObeysGravity ==
    LET board == activeGames[1].Board IN
    /\ Gravity(board)
    /\ \A col \in Cols : \A playerNum \in {humanNum, botNum} :
          \E row \in {DropRow(board, col)} :
          \E after \in {DropDisc(board, col, playerNum)} :
              IF EmptyRows(board, col) = {}
              THEN row = -1 /\ after = board
              ELSE /\ row \in EmptyRows(board, col)
                   /\ \A r \in EmptyRows(board, col) : r <= row
                   /\ \A r \in Rows, c \in Cols :
                         after[r][c] = IF r = row /\ c = col THEN playerNum
                                       ELSE board[r][c]
    /\ MoveAccepted =>
          /\ last.move.Row \in EmptyRows(last.before.Board, last.move.Column)
          /\ \A r \in EmptyRows(last.before.Board, last.move.Column) :
                r <= last.move.Row
          /\ board[last.move.Row][last.move.Column] = NumOf(last.move.Color)

\* a column was filled to the top by accepted moves, and a further move into
\* it was refused
C29_Witness ==
    /\ last.op = "MakeMove"
    /\ last.err = "invalid move: column is full"
    /\ last.column \in Cols
    /\ EmptyRows(activeGames[1].Board, last.column) = {}
    /\ DropRow(activeGames[1].Board, last.column) = -1
    /\ activeGames[1].MoveCount > Len(OpeningStairs)

\* the cell is not empty and lies on a line of four cells of its colour: in
\* that orientation the maximal run through the cell has length four or more
RunOfFour(board, row, col) ==
    /\ board[row][col] # 0
    /\ \E l \in Lines :
          /\ \E k \in 0..3 : row = l[1] + k * l[3] /\ col = l[2] + k * l[4]
          /\ \A k \in 0..3 : board[l[1] + k * l[3]][l[2] + k * l[4]] = board[row][col]

\* C30: on every board reached by legal play, CheckWin(row, col) is true
\* exactly for the non-empty cells through which a run of four or more of
\* the cell's colour passes in one of the four orientations; and after an
\* accepted move it agrees with the scan of the whole board for a four of the
\* mover's colour, which is also when the move ends the game as a win
C30_CheckWinAgreesWithScan ==
    LET board == activeGames[1].Board IN
    /\ \A row \in Rows, col \in Cols :
          CheckWin(board, row, col) <=> RunOfFour(board, row, col)
    /\ MoveAccepted =>
          \E four \in {FourInRow(board, NumOf(last.move.Color))} :
              /\ CheckWin(board, last.move.Row, last.move.Column) <=> four
              /\ (last.over # NoPayload /\ last.over.Reason = "win") <=> four
              /\ ~FourInRow(last.before.Board, humanNum)
              /\ ~FourInRow(last.before.Board, botNum)

\* a move completes a diagonal four with its disc not at the lower end
C30_Witness ==
    LET board == activeGames[1].Board IN
    /\ MoveAccepted
    /\ last.over # NoPayload
    /\ CheckWin(board, last.move.Row, last.move.Column)
    /\ checkDirection(board, last.move.Row, last.move.Column, -1, 1,
                      NumOf(last.move.Color))
    /\ last.move.Row < NumRows - 1
    /\ FourInRow(board, NumOf(last.move.Color))

(***************************************************************************)
(* Properties of the adversary's turn, of the locks and of the messages.   *)
(***************************************************************************)
\* C31: MakeBotMove passes its tests exactly on an Active game whose player
\* 2 is the adversary and whose turn is yellow; a refused call leaves the
\* game as it was; an accepted call adds one yellow disc and no red one to
\* the board it found, after a red move, so the adversary never moves twice
\* in a row, in a game of two humans, or on red's turn
C31_AdversaryMovesOnItsTurnOnly ==
    /\ \A gameID \in DOMAIN activeGames :
          LET game == activeGames[gameID] IN
          MakeBotMoveCheck(activeGames, gameID) = ""
              <=> /\ game.Status = GameStatusActive
                  /\ game.Player2.IsBot
                  /\ game.CurrentTurn = ColorYellow
    /\ last.op = "MakeBotMove" =>
          LET game == activeGames[last.gameID]
              was == last.before
          IN  IF last.err # "" THEN game = was
              ELSE /\ was.Player2.IsBot
                   /\ was.CurrentTurn = ColorYellow
                   /\ was.Status = GameStatusActive
                   /\ last.move.Color = ColorYellow
                   /\ Discs(game.Board, botNum) = Discs(was.Board, botNum) + 1
                   /\ Discs(game.Board, humanNum) = Discs(was.Board, humanNum)
                   /\ game.MoveCount = was.MoveCount + 1
                   /\ LET n == Len(moves[last.gameID]) IN
                         n >= 2 /\ moves[last.gameID][n - 1].Color = ColorRed
                   /\ game.Status = GameStatusActive => game.CurrentTurn = ColorRed

\* the adversary has answered the human's second move
C31_Witness ==
    /\ last.op = "MakeBotMove"
    /\ last.err = ""
    /\ Len(moves[last.gameID]) >= 4
    /\ activeGames[last.gameID].Status = GameStatusActive

\* the socket's reader is between two messages (blocked in ReadJSON)
Reading(s) == sock[s].state = "open"

\* the Active games against the adversary in which the name is the human
AdversaryGamesOf(username) ==
    {g \in DOMAIN activeGames : /\ activeGames[g].Status = GameStatusActive
                                /\ activeGames[g].Player2.IsBot
                                /\ activeGames[g].Player1.Username = username}

\* C32: after an accepted human move that leaves an adversary game Active
\* the handler calls MakeBotMove once before the socket reads again and
\* relays the result to the human; hence whenever a reader bound to the
\* human's name waits for input in an Active adversary game it is red's turn
C32_ReaderWaitsOnRedTurn ==
    \A s \in Sockets :
        (Reading(s) /\ sock[s].username # NoName) =>
            \A g \in AdversaryGamesOf(sock[s].username) :
                activeGames[g].CurrentTurn = ColorRed

\* the goroutine is at a Lock() or RLock() call
Acquiring(t) == Busy(t) /\ OpOf(t)[1] \in {"Lock", "RLock"}

\* the goroutine's next call can return
CanStep(t) ==
    /\ Busy(t)
    /\ \/ OpOf(t)[1] \in {"Unlock", "RUnlock"}
       \/ OpOf(t)[1] = "Lock" /\ Free(OpOf(t)[2])
       \/ /\ OpOf(t)[1] = "RLock"
          /\ mutexes[OpOf(t)[2]].writer = NoThread
          /\ mutexes[OpOf(t)[2]].waiting = {}

\* an order of the mutexes: a goroutine asks only for a mutex above all it holds
LockRank ==
    [disconnectedMutex |-> 1, queueMutex |-> 1, gamesMutex |-> 2, connMutex |-> 2]

\* C33: the locks are taken in an acyclic order (a goroutine asks only for
\* a mutex ranked above every mutex it holds): none asks for connMutex or
\* disconnectedMutex while it holds gamesMutex, none asks for connMutex while
\* it holds queueMutex, none asks for a mutex it holds; and the goroutines
\* under way never all wait: one of them can always take its next step
C33_LocksAcyclicNoDeadlock ==
    /\ \A t \in Threads :
          Acquiring(t) =>
              LET m == OpOf(t)[2] IN
              /\ m \notin Held(t)
              /\ "gamesMutex" \in Held(t) => m \notin {"connMutex", "disconnectedMutex"}
              /\ "queueMutex" \in Held(t) => m # "connMutex"
              /\ \A h \in Held(t) : LockRank[h] < LockRank[m]
    /\ (\E t \in Threads : Busy(t)) => \E t \in Threads : CanStep(t)

\* the forfeit timer, holding disconnectedMutex, is blocked in
\* gamesMutex.Lock() behind a move, and a third goroutine's RLock waits behind it
C33_Witness ==
    \E t, u, v \in Threads :
        /\ threads[t].path = "startForfeitTimer"
        /\ "disconnectedMutex" \in Held(t)
        /\ t \in mutexes["gamesMutex"].waiting
        /\ threads[u].path = "handleMakeMove"
        /\ mutexes["gamesMutex"].writer = u
        /\ v \notin {t, u}
        /\ Acquiring(v) /\ OpOf(v) = <<"RLock", "gamesMutex">>

\* the participants whose four is on the board: each made the game's last
\* move, and handleMakeMove wrote game-over to the socket it came from
WonByPlay(game) ==
    {player \in {game.Player1, game.Player2} :
        /\ ~player.IsBot
        /\ game.Status = GameStatusCompleted
        /\ FourInRow(game.Board, NumOf(player.Color))}

\* C34: a human participant is sent one game-over message per game at most:
\* when the forfeit timer of the absent opponent fires on a game the
\* participant has won by a move (and was sent game-over for), no game-over
\* with reason forfeit is written to the participant's socket
C34_OneGameOverPerPlayer ==
    (last.op = "ForfeitGame" /\ last.err = "") =>
        \A player \in WonByPlay(last.before) :
            \A i \in DOMAIN sent :
                ~(/\ sent[i].type = "game-over"
                  /\ sent[i].to = ConnOf(connections, player.Username))

\* the human participants of a game
Humans(game) == {player \in {game.Player1, game.Player2} : ~player.IsBot}

\* C35: every human participant of an Active game has a socket bound to
\* their name, or a disconnect record and a forfeit timer asleep for it, also
\* when the participant's socket dropped after the pairing and before
\* createMatch ran
C35_ParticipantPresentOrTimed ==
    \A gameID \in DOMAIN activeGames :
        activeGames[gameID].Status = GameStatusActive =>
            \A player \in Humans(activeGames[gameID]) :
                \/ connections[player.Username] # NoSocket
                \/ /\ HasRecord(player.Username)
                   /\ \E t \in forfeitTimers : t.username = player.Username

\* C36: a join_matchmaking refused as invalid leaves the socket's reader
\* bound to the name it had, so that the drop of the socket still runs
\* handleDisconnection for that name
C36_InvalidJoinKeepsName ==
    [][\A s \in Sockets :
          (/\ last'.op = "handleJoinMatchmaking"
           /\ last'.socket = s
           /\ sock[s].username # NoName)
          => sock'[s].username = sock[s].username]_vars


\* C37: a join_matchmaking that JoinQueue refuses because the name is already
\* waiting leaves the connections map as it was, so the waiting player's
\* socket stays the one bound to the name
C37_RefusedJoinKeepsBinding ==
    [][(/\ last'.op = "JoinQueue"
        /\ InQueue(waitingQueue, last'.username))
       => connections' = connections]_vars

\* the messages about a game
GameEvents ==
    {"game-started", "opponent-moved", "game-over", "opponent-disconnected",
     "opponent-reconnected"}

\* C38: a game event is written only to a socket that connections holds for
\* the name of a human participant of the game: no other client, whatever
\* name it joined with, is sent a message about a game it is not seated in
C38_EventsToParticipantsOnly ==
    \A i \in DOMAIN sent :
        sent[i].type \in GameEvents =>
            \E gameID \in DOMAIN activeGames :
                \E player \in Humans(activeGames[gameID]) :
                    sent[i].to = ConnOf(connections, player.Username)

\* C39: the waiting queue holds at most one entry in every reachable state
C39_QueueHoldsAtMostOne ==
    /\ Len(waitingQueue) <= 1
    /\ (last.op = "JoinQueue" /\ last.queue # << >> /\ ~InQueue(last.queue, last.username))
       => waitingQueue = << >>

\* a join accepted while a player waited: the two are paired and nobody waits
C39_Witness ==
    /\ last.op = "JoinQueue"
    /\ Len(last.queue) = 1
    /\ ~InQueue(last.queue, last.username)
    /\ waitingQueue = << >>
    /\ matchTasks # {}

\* C40: on a board with a legal column the search returns a legal column,
\* never -1, and leaves the board as it was: a MakeBotMove whose checks
\* passed does not fail, and it changes the one cell its disc lands in
C40_SearchReturnsLegalColumn ==
    last.op = "MakeBotMove" =>
        /\ last.err = ""
        /\ last.move.Column \in Cols
        /\ IsValidMove(last.before.Board, last.move.Column)
        /\ last.move.Row \in Rows
        /\ last.move.Board =
              [last.before.Board EXCEPT ![last.move.Row][last.move.Column] = botNum]

\* the adversary has moved on a board with full columns on which neither
\* probe hit, so that the column came out of the search loop
C40_Witness ==
    /\ last.op = "MakeBotMove"
    /\ last.err = ""
    /\ ~Urgent(last.before.Board)
    /\ \E col \in Cols : ~IsValidMove(last.before.Board, col)

====
